---------------------------- MODULE Spec2Model ----------------------------
(***************************************************************************)
(* Model of the memory-lancedb plugin's capture path:                      *)
(*   triggers.ts      the rule catalogue, getFilteredTriggers,             *)
(*                    matchTrigger, getAllMatches                          *)
(*   message-utils    stripMessageMetadata and its four strippers          *)
(*   index.ts         createShouldCapture (the capture gate)               *)
(*                                                                         *)
(* A text is a sequence of UTF-16 code units (JavaScript strings), so      *)
(* Len(text) is text.length.  A regular expression is a tree that follows  *)
(* the source regex node by node; RegExpTest evaluates it the way          *)
(* RegExp.prototype.test does for a pattern without the g, y or u flag.    *)
(***************************************************************************)
EXTENDS Integers, Sequences, FiniteSets, TLC

(***************************************************************************)
(* Regular expressions (ECMAScript semantics, no u flag)                   *)
(***************************************************************************)

\* The open upper end of the quantifiers +, * and {n,}.
Unbounded == -1

\* \d
Digits == 48..57

\* \w : [A-Za-z0-9_]
WordChars == (48..57) \cup (65..90) \cup {95} \cup (97..122)

\* \s : WhiteSpace and LineTerminator code points
WhiteSpace ==
  {9, 10, 11, 12, 13, 32, 160, 5760, 8232, 8233, 8239, 8287, 12288, 65279}
    \cup (8192..8202)

\* The characters "." does not match.
LineTerminators == {10, 13, 8232, 8233}

Lit(cs) == [t |-> "lit", cs |-> cs]
Class(cs) == [t |-> "class", cs |-> cs]
NotClass(cs) == [t |-> "nclass", cs |-> cs]
AnyChar == [t |-> "any"]
WordBoundary == [t |-> "wb"]
Group(x) == [t |-> "group", x |-> x]
Concat(xs) == [t |-> "concat", xs |-> xs]
Alt(xs) == [t |-> "alt", xs |-> xs]
Repeat(x, min, max) == [t |-> "repeat", x |-> x, min |-> min, max |-> max]

\* String.prototype.toUpperCase on a one-unit string where the result is one
\* unit, for the Latin and Cyrillic blocks the catalogue's letters come from;
\* every other unit maps to itself.
ToUpperCase(ch) ==
  IF ch < 128 THEN (IF ch >= 97 /\ ch <= 122 THEN ch - 32 ELSE ch)
  ELSE IF ch >= 1072 /\ ch <= 1103 THEN ch - 32
  ELSE IF ch >= 1104 /\ ch <= 1119 THEN ch - 80
  ELSE IF ch < 1072
       THEN CASE ch >= 224 /\ ch <= 254 /\ ch # 247 -> ch - 32
              [] ch = 255 -> 376
              [] ch = 181 -> 924
              [] ch >= 256 /\ ch <= 311 /\ ch % 2 = 1 /\ ch # 305 -> ch - 1
              [] ch >= 314 /\ ch <= 328 /\ ch % 2 = 0 -> ch - 1
              [] ch >= 331 /\ ch <= 375 /\ ch % 2 = 1 -> ch - 1
              [] ch >= 378 /\ ch <= 382 /\ ch % 2 = 0 -> ch - 1
              [] ch = 305 -> 73
              [] ch = 383 -> 83
              [] OTHER -> ch
       ELSE CASE ch >= 1121 /\ ch <= 1153 /\ ch % 2 = 1 -> ch - 1
              [] ch >= 1163 /\ ch <= 1215 /\ ch % 2 = 1 -> ch - 1
              [] ch >= 1218 /\ ch <= 1230 /\ ch % 2 = 0 -> ch - 1
              [] ch = 1231 -> 1216
              [] ch >= 1233 /\ ch <= 1279 /\ ch % 2 = 1 -> ch - 1
              [] ch = 7296 -> 1042
              [] ch = 7297 -> 1044
              [] ch = 7298 -> 1054
              [] ch = 7299 -> 1057
              [] ch \in {7300, 7301} -> 1058
              [] ch = 7302 -> 1066
              [] ch = 7303 -> 1122
              [] OTHER -> ch

\* Canonicalize of the ECMAScript specification for ignoreCase without the
\* u flag: upper-case the unit, but never map a non-ASCII unit to ASCII.
Canonicalize(ch) ==
  LET cu == ToUpperCase(ch)
  IN  IF ch >= 128 /\ cu < 128 THEN ch ELSE cu

CharMatches(ch, c, ignoreCase) ==
  IF ignoreCase THEN Canonicalize(ch) = Canonicalize(c) ELSE ch = c

ClassMatches(ch, cs, ignoreCase) ==
  \/ ch \in cs
  \/ ignoreCase /\ \E c \in cs : Canonicalize(c) = Canonicalize(ch)

\* \b at position p (the index of the next unit to read, 1..Len(s)+1): the
\* units on the two sides differ in being word characters.
AtWordBoundary(s, p) ==
  LET a == p > 1 /\ s[p - 1] \in WordChars
      b == p <= Len(s) /\ s[p] \in WordChars
  IN  a # b

\* Ends(re, ic, s, P): the positions at which a match of re can end when it
\* starts at one of the positions P of s.
RECURSIVE Ends(_, _, _, _)
RECURSIVE ConcatEnds(_, _, _, _, _)
RECURSIVE AltEnds(_, _, _, _, _)
RECURSIVE RepeatEnds(_, _, _, _, _, _, _)

\* The literal cs occurs in s from position p on.
LitAt(cs, ic, s, p) ==
  /\ p + Len(cs) - 1 <= Len(s)
  /\ \A k \in 1..Len(cs) : CharMatches(s[p + k - 1], cs[k], ic)

\* The nodes that match exactly one unit.
UnitNodes == {"class", "nclass", "any"}

\* The unit at position p is one that a class, or ".", matches.
UnitMatches(re, ic, s, p) ==
  CASE re.t = "any" -> s[p] \notin LineTerminators
    [] re.t = "class" -> ClassMatches(s[p], re.cs, ic)
    [] re.t = "nclass" -> ~ClassMatches(s[p], re.cs, ic)

\* The element of a one-element set.  { e(x) : x \in {v} } evaluates v once
\* and names it x, so Only({ e(x) : x \in {v} }) is "LET x == v IN e(x)"
\* with v evaluated once.
Only(S) == CHOOSE v \in S : TRUE

\* A quantified class (or "."): it matches along a run of units of the
\* class, so from p it can end after n units for every n in min..max that
\* stays inside the run that starts at p.  bad holds the positions whose
\* unit is not of the class, and the position behind the text.
RunEnds(bad, min, max, P) ==
  UNION {(p + min)..Only({IF max = Unbounded \/ stop < p + max THEN stop ELSE p + max :
                          stop \in {CHOOSE j \in bad : j >= p /\ \A i \in bad : i >= p => j <= i}})
         : p \in P}

ClassRunEnds(re, min, max, ic, s, P) ==
  UNION {RunEnds(bad, min, max, P) :
         bad \in {{j \in 1..Len(s) : ~UnitMatches(re, ic, s, j)} \cup {Len(s) + 1}}}

ConcatEnds(xs, k, ic, s, P) ==
  IF k > Len(xs) \/ P = {} THEN P
  ELSE UNION {ConcatEnds(xs, k + 1, ic, s, Q) : Q \in {Ends(xs[k], ic, s, P)}}

AltEnds(xs, k, ic, s, P) ==
  IF k > Len(xs) THEN {}
  ELSE Ends(xs[k], ic, s, P) \cup AltEnds(xs, k + 1, ic, s, P)

\* n repetitions of x have been matched and ended at the positions P.
RepeatEnds(x, min, max, n, ic, s, P) ==
  IF P = {} THEN {}
  ELSE (IF n >= min THEN P ELSE {})
         \cup (IF max # Unbounded /\ n >= max THEN {}
               ELSE UNION {RepeatEnds(x, min, max, n + 1, ic, s, Q) :
                           Q \in {Ends(x, ic, s, P)}})

Ends(re, ic, s, P) ==
  IF P = {} THEN {}
  ELSE CASE re.t = "lit" ->
              {p + Len(re.cs) : p \in {q \in P : LitAt(re.cs, ic, s, q)}}
         [] re.t \in UnitNodes ->
              {p + 1 : p \in {q \in P : q <= Len(s) /\ UnitMatches(re, ic, s, q)}}
         [] re.t = "wb" -> {p \in P : AtWordBoundary(s, p)}
         [] re.t = "group" -> Ends(re.x, ic, s, P)
         [] re.t = "concat" -> ConcatEnds(re.xs, 1, ic, s, P)
         [] re.t = "alt" -> AltEnds(re.xs, 1, ic, s, P)
         [] re.t = "repeat" ->
              IF re.x.t \in UnitNodes
              THEN ClassRunEnds(re.x, re.min, re.max, ic, s, P)
              ELSE RepeatEnds(re.x, re.min, re.max, 0, ic, s, P)

\* RegExpBuiltinExec as far as test() shows it: whether the pattern matches
\* and the lastIndex it leaves.  Without the g flag the search starts at
\* index 0 whatever lastIndex holds and lastIndex is left alone; with it the
\* search starts at lastIndex, which becomes the end of the match (the
\* longest one the leftmost start allows), or 0 when nothing matches.
RegExpExec(re, flags, lastIndex, s) ==
  IF "g" \notin flags
  THEN [found |-> Ends(re, "i" \in flags, s, 1..(Len(s) + 1)) # {}, lastIndex |-> lastIndex]
  ELSE Only({IF starts = {} THEN [found |-> FALSE, lastIndex |-> 0]
             ELSE Only({[found |-> TRUE, lastIndex |-> (CHOOSE q \in ends : \A r \in ends : q >= r) - 1] :
                        ends \in {Ends(re, "i" \in flags, s, {CHOOSE q \in starts : \A r \in starts : q <= r})}})
             : starts \in {{p \in (lastIndex + 1)..(Len(s) + 1) : Ends(re, "i" \in flags, s, {p}) # {}}}})

(***************************************************************************)
(* triggers.ts : the rule catalogue                                        *)
(* Every rule is transcribed from its source line; the comment above it    *)
(* quotes the regex (non-ASCII letters as \uXXXX).  A rule whose source    *)
(* has no weight has no weight field.                                      *)
(***************************************************************************)

\* triggers.ts lines 473-539
REMEMBER_TRIGGERS ==
  <<
  \* line 475: /\bremember\b/i
  [pattern |-> Concat(<<WordBoundary, Lit(<<114, 101, 109, 101, 109, 98, 101, 114>>), WordBoundary>>), flags |-> {"i"}, category |-> "remember", lang |-> "en", weight |-> 2],
  \* line 476: /\bdon'?t forget\b/i
  [pattern |-> Concat(<<WordBoundary, Lit(<<100, 111, 110>>), Repeat(Lit(<<39>>), 0, 1), Lit(<<116, 32, 102, 111, 114, 103, 101, 116>>), WordBoundary>>), flags |-> {"i"}, category |-> "remember", lang |-> "en", weight |-> 2],
  \* line 477: /\bkeep in mind\b/i
  [pattern |-> Concat(<<WordBoundary, Lit(<<107, 101, 101, 112, 32, 105, 110, 32, 109, 105, 110, 100>>), WordBoundary>>), flags |-> {"i"}, category |-> "remember", lang |-> "en", weight |-> 2],
  \* line 478: /\bnote that\b/i
  [pattern |-> Concat(<<WordBoundary, Lit(<<110, 111, 116, 101, 32, 116, 104, 97, 116>>), WordBoundary>>), flags |-> {"i"}, category |-> "remember", lang |-> "en"],
  \* line 479: /\bfor (the )?future\b/i
  [pattern |-> Concat(<<WordBoundary, Lit(<<102, 111, 114, 32>>), Repeat(Group(Lit(<<116, 104, 101, 32>>)), 0, 1), Lit(<<102, 117, 116, 117, 114, 101>>), WordBoundary>>), flags |-> {"i"}, category |-> "remember", lang |-> "en"],
  \* line 482: /\u0437\u0430\u043F\u043E\u043C\u043D\u0438/i
  [pattern |-> Lit(<<1079, 1072, 1087, 1086, 1084, 1085, 1080>>), flags |-> {"i"}, category |-> "remember", lang |-> "ru", weight |-> 2],
  \* line 483: /\u043D\u0435 \u0437\u0430\u0431\u0443\u0434\u044C/i
  [pattern |-> Lit(<<1085, 1077, 32, 1079, 1072, 1073, 1091, 1076, 1100>>), flags |-> {"i"}, category |-> "remember", lang |-> "ru", weight |-> 2],
  \* line 484: /\u043F\u043E\u043C\u043D\u0438/i
  [pattern |-> Lit(<<1087, 1086, 1084, 1085, 1080>>), flags |-> {"i"}, category |-> "remember", lang |-> "ru", weight |-> 2],
  \* line 485: /\u0443\u0447\u0442\u0438/i
  [pattern |-> Lit(<<1091, 1095, 1090, 1080>>), flags |-> {"i"}, category |-> "remember", lang |-> "ru", weight |-> 2],
  \* line 486: /\u0437\u0430\u0440\u0443\u0431\u0438 \u043D\u0430 \u043D\u043E\u0441\u0443/i
  [pattern |-> Lit(<<1079, 1072, 1088, 1091, 1073, 1080, 32, 1085, 1072, 32, 1085, 1086, 1089, 1091>>), flags |-> {"i"}, category |-> "remember", lang |-> "ru", weight |-> 2],
  \* line 487: /\u0432\u044B\u0443\u0447\u0438/i
  [pattern |-> Lit(<<1074, 1099, 1091, 1095, 1080>>), flags |-> {"i"}, category |-> "remember", lang |-> "ru"],
  \* line 488: /\u0437\u0430\u043F\u0438\u0448\u0438/i
  [pattern |-> Lit(<<1079, 1072, 1087, 1080, 1096, 1080>>), flags |-> {"i"}, category |-> "remember", lang |-> "ru"],
  \* line 489: /\u043D\u0430 \u0431\u0443\u0434\u0443\u0449\u0435\u0435/i
  [pattern |-> Lit(<<1085, 1072, 32, 1073, 1091, 1076, 1091, 1097, 1077, 1077>>), flags |-> {"i"}, category |-> "remember", lang |-> "ru"],
  \* line 490: /\u0438\u043C\u0435\u0439 \u0432 \u0432\u0438\u0434\u0443/i
  [pattern |-> Lit(<<1080, 1084, 1077, 1081, 32, 1074, 32, 1074, 1080, 1076, 1091>>), flags |-> {"i"}, category |-> "remember", lang |-> "ru"],
  \* line 493: /\u0437\u0430\u043F\u0430\u043C['']?\u044F\u0442\u0430\u0439/i
  [pattern |-> Concat(<<Lit(<<1079, 1072, 1087, 1072, 1084>>), Repeat(Class({39}), 0, 1), Lit(<<1103, 1090, 1072, 1081>>)>>), flags |-> {"i"}, category |-> "remember", lang |-> "uk", weight |-> 2],
  \* line 494: /\u043F\u0430\u043C['']?\u044F\u0442\u0430\u0439/i
  [pattern |-> Concat(<<Lit(<<1087, 1072, 1084>>), Repeat(Class({39}), 0, 1), Lit(<<1103, 1090, 1072, 1081>>)>>), flags |-> {"i"}, category |-> "remember", lang |-> "uk", weight |-> 2],
  \* line 497: /\u0437\u0430\u043F\u043E\u043C\u043D\u0456/i
  [pattern |-> Lit(<<1079, 1072, 1087, 1086, 1084, 1085, 1110>>), flags |-> {"i"}, category |-> "remember", lang |-> "by", weight |-> 2],
  \* line 498: /\u043D\u0435 \u0437\u0430\u0431\u0443\u0434\u0437\u044C/i
  [pattern |-> Lit(<<1085, 1077, 32, 1079, 1072, 1073, 1091, 1076, 1079, 1100>>), flags |-> {"i"}, category |-> "remember", lang |-> "by", weight |-> 2],
  \* line 499: /\u043F\u0430\u043C\u044F\u0442\u0430\u0439/i
  [pattern |-> Lit(<<1087, 1072, 1084, 1103, 1090, 1072, 1081>>), flags |-> {"i"}, category |-> "remember", lang |-> "by", weight |-> 2],
  \* line 502: /\u0435\u0441\u0442\u0435 \u0441\u0430\u049B\u0442\u0430/i
  [pattern |-> Lit(<<1077, 1089, 1090, 1077, 32, 1089, 1072, 1179, 1090, 1072>>), flags |-> {"i"}, category |-> "remember", lang |-> "kk", weight |-> 2],
  \* line 503: /\u04B1\u043C\u044B\u0442\u043F\u0430/i
  [pattern |-> Lit(<<1201, 1084, 1099, 1090, 1087, 1072>>), flags |-> {"i"}, category |-> "remember", lang |-> "kk", weight |-> 2],
  \* line 504: /\u0436\u0430\u0437(\u044B\u043F \u049B\u043E\u0439)?/i
  [pattern |-> Concat(<<Lit(<<1078, 1072, 1079>>), Repeat(Group(Lit(<<1099, 1087, 32, 1179, 1086, 1081>>)), 0, 1)>>), flags |-> {"i"}, category |-> "remember", lang |-> "kk"],
  \* line 505: /\u0435\u0441\u043A\u0435\u0440/i
  [pattern |-> Lit(<<1077, 1089, 1082, 1077, 1088>>), flags |-> {"i"}, category |-> "remember", lang |-> "kk"],
  \* line 508: /\bzapamatuj si\b/i
  [pattern |-> Concat(<<WordBoundary, Lit(<<122, 97, 112, 97, 109, 97, 116, 117, 106, 32, 115, 105>>), WordBoundary>>), flags |-> {"i"}, category |-> "remember", lang |-> "cz", weight |-> 2],
  \* line 509: /\bpamatuj\b/i
  [pattern |-> Concat(<<WordBoundary, Lit(<<112, 97, 109, 97, 116, 117, 106>>), WordBoundary>>), flags |-> {"i"}, category |-> "remember", lang |-> "cz", weight |-> 2],
  \* line 510: /\bnezapome\u0148\b/i
  [pattern |-> Concat(<<WordBoundary, Lit(<<110, 101, 122, 97, 112, 111, 109, 101, 328>>), WordBoundary>>), flags |-> {"i"}, category |-> "remember", lang |-> "cz", weight |-> 2],
  \* line 513: /\bsouviens[- ]toi\b/i
  [pattern |-> Concat(<<WordBoundary, Lit(<<115, 111, 117, 118, 105, 101, 110, 115>>), Class({45, 32}), Lit(<<116, 111, 105>>), WordBoundary>>), flags |-> {"i"}, category |-> "remember", lang |-> "fr", weight |-> 2],
  \* line 514: /\bn['']?oublie pas\b/i
  [pattern |-> Concat(<<WordBoundary, Lit(<<110>>), Repeat(Class({39}), 0, 1), Lit(<<111, 117, 98, 108, 105, 101, 32, 112, 97, 115>>), WordBoundary>>), flags |-> {"i"}, category |-> "remember", lang |-> "fr", weight |-> 2],
  \* line 515: /\bretiens\b/i
  [pattern |-> Concat(<<WordBoundary, Lit(<<114, 101, 116, 105, 101, 110, 115>>), WordBoundary>>), flags |-> {"i"}, category |-> "remember", lang |-> "fr", weight |-> 2],
  \* line 516: /\bnote que\b/i
  [pattern |-> Concat(<<WordBoundary, Lit(<<110, 111, 116, 101, 32, 113, 117, 101>>), WordBoundary>>), flags |-> {"i"}, category |-> "remember", lang |-> "fr"],
  \* line 519: /\brecuerda\b/i
  [pattern |-> Concat(<<WordBoundary, Lit(<<114, 101, 99, 117, 101, 114, 100, 97>>), WordBoundary>>), flags |-> {"i"}, category |-> "remember", lang |-> "es", weight |-> 2],
  \* line 520: /\bno olvides\b/i
  [pattern |-> Concat(<<WordBoundary, Lit(<<110, 111, 32, 111, 108, 118, 105, 100, 101, 115>>), WordBoundary>>), flags |-> {"i"}, category |-> "remember", lang |-> "es", weight |-> 2],
  \* line 521: /\bten en cuenta\b/i
  [pattern |-> Concat(<<WordBoundary, Lit(<<116, 101, 110, 32, 101, 110, 32, 99, 117, 101, 110, 116, 97>>), WordBoundary>>), flags |-> {"i"}, category |-> "remember", lang |-> "es"],
  \* line 522: /\bapunta\b/i
  [pattern |-> Concat(<<WordBoundary, Lit(<<97, 112, 117, 110, 116, 97>>), WordBoundary>>), flags |-> {"i"}, category |-> "remember", lang |-> "es"],
  \* line 525: /\bricorda(ti)?\b/i
  [pattern |-> Concat(<<WordBoundary, Lit(<<114, 105, 99, 111, 114, 100, 97>>), Repeat(Group(Lit(<<116, 105>>)), 0, 1), WordBoundary>>), flags |-> {"i"}, category |-> "remember", lang |-> "it", weight |-> 2],
  \* line 526: /\bnon dimenticare\b/i
  [pattern |-> Concat(<<WordBoundary, Lit(<<110, 111, 110, 32, 100, 105, 109, 101, 110, 116, 105, 99, 97, 114, 101>>), WordBoundary>>), flags |-> {"i"}, category |-> "remember", lang |-> "it", weight |-> 2],
  \* line 527: /\btieni a mente\b/i
  [pattern |-> Concat(<<WordBoundary, Lit(<<116, 105, 101, 110, 105, 32, 97, 32, 109, 101, 110, 116, 101>>), WordBoundary>>), flags |-> {"i"}, category |-> "remember", lang |-> "it"],
  \* line 530: /\blembra[- ]te\b/i
  [pattern |-> Concat(<<WordBoundary, Lit(<<108, 101, 109, 98, 114, 97>>), Class({45, 32}), Lit(<<116, 101>>), WordBoundary>>), flags |-> {"i"}, category |-> "remember", lang |-> "pt", weight |-> 2],
  \* line 531: /\bn\u00E3o esque\u00E7as?\b/i
  [pattern |-> Concat(<<WordBoundary, Lit(<<110, 227, 111, 32, 101, 115, 113, 117, 101, 231, 97>>), Repeat(Lit(<<115>>), 0, 1), WordBoundary>>), flags |-> {"i"}, category |-> "remember", lang |-> "pt", weight |-> 2],
  \* line 532: /\banota\b/i
  [pattern |-> Concat(<<WordBoundary, Lit(<<97, 110, 111, 116, 97>>), WordBoundary>>), flags |-> {"i"}, category |-> "remember", lang |-> "pt"],
  \* line 535: /\bmerk dir\b/i
  [pattern |-> Concat(<<WordBoundary, Lit(<<109, 101, 114, 107, 32, 100, 105, 114>>), WordBoundary>>), flags |-> {"i"}, category |-> "remember", lang |-> "de", weight |-> 2],
  \* line 536: /\bvergiss nicht\b/i
  [pattern |-> Concat(<<WordBoundary, Lit(<<118, 101, 114, 103, 105, 115, 115, 32, 110, 105, 99, 104, 116>>), WordBoundary>>), flags |-> {"i"}, category |-> "remember", lang |-> "de", weight |-> 2],
  \* line 537: /\bdenk daran\b/i
  [pattern |-> Concat(<<WordBoundary, Lit(<<100, 101, 110, 107, 32, 100, 97, 114, 97, 110>>), WordBoundary>>), flags |-> {"i"}, category |-> "remember", lang |-> "de", weight |-> 2],
  \* line 538: /\bbeachte\b/i
  [pattern |-> Concat(<<WordBoundary, Lit(<<98, 101, 97, 99, 104, 116, 101>>), WordBoundary>>), flags |-> {"i"}, category |-> "remember", lang |-> "de"]
  >>

\* triggers.ts lines 544-607
PREFERENCE_TRIGGERS ==
  <<
  \* line 546: /\bi (like|love|prefer|enjoy|hate|dislike|can'?t stand)\b/i
  [pattern |-> Concat(<<WordBoundary, Lit(<<105, 32>>), Group(Alt(<<Lit(<<108, 105, 107, 101>>), Lit(<<108, 111, 118, 101>>), Lit(<<112, 114, 101, 102, 101, 114>>), Lit(<<101, 110, 106, 111, 121>>), Lit(<<104, 97, 116, 101>>), Lit(<<100, 105, 115, 108, 105, 107, 101>>), Concat(<<Lit(<<99, 97, 110>>), Repeat(Lit(<<39>>), 0, 1), Lit(<<116, 32, 115, 116, 97, 110, 100>>)>>)>>)), WordBoundary>>), flags |-> {"i"}, category |-> "preference", lang |-> "en"],
  \* line 547: /\bmy favou?rite\b/i
  [pattern |-> Concat(<<WordBoundary, Lit(<<109, 121, 32, 102, 97, 118, 111>>), Repeat(Lit(<<117>>), 0, 1), Lit(<<114, 105, 116, 101>>), WordBoundary>>), flags |-> {"i"}, category |-> "preference", lang |-> "en"],
  \* line 548: /\bi('?m| am) (a fan of|into|fond of)\b/i
  [pattern |-> Concat(<<WordBoundary, Lit(<<105>>), Group(Alt(<<Concat(<<Repeat(Lit(<<39>>), 0, 1), Lit(<<109>>)>>), Lit(<<32, 97, 109>>)>>)), Lit(<<32>>), Group(Alt(<<Lit(<<97, 32, 102, 97, 110, 32, 111, 102>>), Lit(<<105, 110, 116, 111>>), Lit(<<102, 111, 110, 100, 32, 111, 102>>)>>)), WordBoundary>>), flags |-> {"i"}, category |-> "preference", lang |-> "en"],
  \* line 549: /\bi don'?t (like|want|need)\b/i
  [pattern |-> Concat(<<WordBoundary, Lit(<<105, 32, 100, 111, 110>>), Repeat(Lit(<<39>>), 0, 1), Lit(<<116, 32>>), Group(Alt(<<Lit(<<108, 105, 107, 101>>), Lit(<<119, 97, 110, 116>>), Lit(<<110, 101, 101, 100>>)>>)), WordBoundary>>), flags |-> {"i"}, category |-> "preference", lang |-> "en"],
  \* line 552: /(\u043C\u043D\u0435 )?(\u043D\u0440\u0430\u0432\u0438\u0442\u0441\u044F|\u043B\u044E\u0431\u043B\u044E|\u043F\u0440\u0435\u0434\u043F\u043E\u0447\u0438\u0442\u0430\u044E|\u043E\u0431\u043E\u0436\u0430\u044E)/i
  [pattern |-> Concat(<<Repeat(Group(Lit(<<1084, 1085, 1077, 32>>)), 0, 1), Group(Alt(<<Lit(<<1085, 1088, 1072, 1074, 1080, 1090, 1089, 1103>>), Lit(<<1083, 1102, 1073, 1083, 1102>>), Lit(<<1087, 1088, 1077, 1076, 1087, 1086, 1095, 1080, 1090, 1072, 1102>>), Lit(<<1086, 1073, 1086, 1078, 1072, 1102>>)>>))>>), flags |-> {"i"}, category |-> "preference", lang |-> "ru"],
  \* line 553: /(\u043C\u043D\u0435 )?\u043D\u0435 (\u043D\u0440\u0430\u0432\u0438\u0442\u0441\u044F|\u043B\u044E\u0431\u043B\u044E)/i
  [pattern |-> Concat(<<Repeat(Group(Lit(<<1084, 1085, 1077, 32>>)), 0, 1), Lit(<<1085, 1077, 32>>), Group(Alt(<<Lit(<<1085, 1088, 1072, 1074, 1080, 1090, 1089, 1103>>), Lit(<<1083, 1102, 1073, 1083, 1102>>)>>))>>), flags |-> {"i"}, category |-> "preference", lang |-> "ru"],
  \* line 554: /\u043D\u0435\u043D\u0430\u0432\u0438\u0436\u0443/i
  [pattern |-> Lit(<<1085, 1077, 1085, 1072, 1074, 1080, 1078, 1091>>), flags |-> {"i"}, category |-> "preference", lang |-> "ru"],
  \* line 555: /\u044F \u0445\u043E\u0447\u0443/i
  [pattern |-> Lit(<<1103, 32, 1093, 1086, 1095, 1091>>), flags |-> {"i"}, category |-> "preference", lang |-> "ru"],
  \* line 556: /\u044F \u043D\u0435 \u0445\u043E\u0447\u0443/i
  [pattern |-> Lit(<<1103, 32, 1085, 1077, 32, 1093, 1086, 1095, 1091>>), flags |-> {"i"}, category |-> "preference", lang |-> "ru"],
  \* line 557: /\u043C\u043E[\u0439\u044F\u0435\u0451] \u043B\u044E\u0431\u0438\u043C[\u044B\u0439\u0430\u044F\u043E\u0435]+/i
  [pattern |-> Concat(<<Lit(<<1084, 1086>>), Class({1081, 1103, 1077, 1105}), Lit(<<32, 1083, 1102, 1073, 1080, 1084>>), Repeat(Class({1099, 1081, 1072, 1103, 1086, 1077}), 1, Unbounded)>>), flags |-> {"i"}, category |-> "preference", lang |-> "ru"],
  \* line 558: /\u044F \u0444\u0430\u043D\u0430\u0442/i
  [pattern |-> Lit(<<1103, 32, 1092, 1072, 1085, 1072, 1090>>), flags |-> {"i"}, category |-> "preference", lang |-> "ru"],
  \* line 561: /(\u043C\u0435\u043D\u0456 )?(\u043F\u043E\u0434\u043E\u0431\u0430\u0454\u0442\u044C\u0441\u044F|\u043B\u044E\u0431\u043B\u044E|\u0432\u0456\u0434\u0434\u0430\u044E \u043F\u0435\u0440\u0435\u0432\u0430\u0433\u0443)/i
  [pattern |-> Concat(<<Repeat(Group(Lit(<<1084, 1077, 1085, 1110, 32>>)), 0, 1), Group(Alt(<<Lit(<<1087, 1086, 1076, 1086, 1073, 1072, 1108, 1090, 1100, 1089, 1103>>), Lit(<<1083, 1102, 1073, 1083, 1102>>), Lit(<<1074, 1110, 1076, 1076, 1072, 1102, 32, 1087, 1077, 1088, 1077, 1074, 1072, 1075, 1091>>)>>))>>), flags |-> {"i"}, category |-> "preference", lang |-> "uk"],
  \* line 562: /\u043D\u0435 (\u043F\u043E\u0434\u043E\u0431\u0430\u0454\u0442\u044C\u0441\u044F|\u043B\u044E\u0431\u043B\u044E)/i
  [pattern |-> Concat(<<Lit(<<1085, 1077, 32>>), Group(Alt(<<Lit(<<1087, 1086, 1076, 1086, 1073, 1072, 1108, 1090, 1100, 1089, 1103>>), Lit(<<1083, 1102, 1073, 1083, 1102>>)>>))>>), flags |-> {"i"}, category |-> "preference", lang |-> "uk"],
  \* line 563: /\u043D\u0435\u043D\u0430\u0432\u0438\u0434\u0436\u0443/i
  [pattern |-> Lit(<<1085, 1077, 1085, 1072, 1074, 1080, 1076, 1078, 1091>>), flags |-> {"i"}, category |-> "preference", lang |-> "uk"],
  \* line 566: /(\u043C\u043D\u0435 )?(\u043F\u0430\u0434\u0430\u0431\u0430\u0435\u0446\u0446\u0430|\u043B\u044E\u0431\u043B\u044E|\u0430\u0434\u0434\u0430\u044E \u043F\u0435\u0440\u0430\u0432\u0430\u0433\u0443)/i
  [pattern |-> Concat(<<Repeat(Group(Lit(<<1084, 1085, 1077, 32>>)), 0, 1), Group(Alt(<<Lit(<<1087, 1072, 1076, 1072, 1073, 1072, 1077, 1094, 1094, 1072>>), Lit(<<1083, 1102, 1073, 1083, 1102>>), Lit(<<1072, 1076, 1076, 1072, 1102, 32, 1087, 1077, 1088, 1072, 1074, 1072, 1075, 1091>>)>>))>>), flags |-> {"i"}, category |-> "preference", lang |-> "by"],
  \* line 567: /\u043D\u0435 (\u043F\u0430\u0434\u0430\u0431\u0430\u0435\u0446\u0446\u0430|\u043B\u044E\u0431\u043B\u044E)/i
  [pattern |-> Concat(<<Lit(<<1085, 1077, 32>>), Group(Alt(<<Lit(<<1087, 1072, 1076, 1072, 1073, 1072, 1077, 1094, 1094, 1072>>), Lit(<<1083, 1102, 1073, 1083, 1102>>)>>))>>), flags |-> {"i"}, category |-> "preference", lang |-> "by"],
  \* line 570: /(\u043C\u0430\u0493\u0430\u043D )?(\u04B1\u043D\u0430\u0439\u0434\u044B|\u0436\u0430\u049B\u0441\u044B \u043A\u04E9\u0440\u0435\u043C\u0456\u043D)/i
  [pattern |-> Concat(<<Repeat(Group(Lit(<<1084, 1072, 1171, 1072, 1085, 32>>)), 0, 1), Group(Alt(<<Lit(<<1201, 1085, 1072, 1081, 1076, 1099>>), Lit(<<1078, 1072, 1179, 1089, 1099, 32, 1082, 1257, 1088, 1077, 1084, 1110, 1085>>)>>))>>), flags |-> {"i"}, category |-> "preference", lang |-> "kk"],
  \* line 571: /\u04B1\u043D\u0430\u043C\u0430\u0439\u0434\u044B/i
  [pattern |-> Lit(<<1201, 1085, 1072, 1084, 1072, 1081, 1076, 1099>>), flags |-> {"i"}, category |-> "preference", lang |-> "kk"],
  \* line 572: /\u0436\u0435\u043A \u043A\u04E9\u0440\u0435\u043C\u0456\u043D/i
  [pattern |-> Lit(<<1078, 1077, 1082, 32, 1082, 1257, 1088, 1077, 1084, 1110, 1085>>), flags |-> {"i"}, category |-> "preference", lang |-> "kk"],
  \* line 573: /\u0441\u04AF\u0439\u0456\u043A\u0442\u0456/i
  [pattern |-> Lit(<<1089, 1199, 1081, 1110, 1082, 1090, 1110>>), flags |-> {"i"}, category |-> "preference", lang |-> "kk"],
  \* line 576: /\b(m\u00E1m )?r\u00E1d\b/i
  [pattern |-> Concat(<<WordBoundary, Repeat(Group(Lit(<<109, 225, 109, 32>>)), 0, 1), Lit(<<114, 225, 100>>), WordBoundary>>), flags |-> {"i"}, category |-> "preference", lang |-> "cz"],
  \* line 577: /\bpreferuji\b/i
  [pattern |-> Concat(<<WordBoundary, Lit(<<112, 114, 101, 102, 101, 114, 117, 106, 105>>), WordBoundary>>), flags |-> {"i"}, category |-> "preference", lang |-> "cz"],
  \* line 578: /\brad\u0161i\b/i
  [pattern |-> Concat(<<WordBoundary, Lit(<<114, 97, 100, 353, 105>>), WordBoundary>>), flags |-> {"i"}, category |-> "preference", lang |-> "cz"],
  \* line 579: /\bnechci\b/i
  [pattern |-> Concat(<<WordBoundary, Lit(<<110, 101, 99, 104, 99, 105>>), WordBoundary>>), flags |-> {"i"}, category |-> "preference", lang |-> "cz"],
  \* line 582: /\bj['']?(aime|adore|pr\u00E9f\u00E8re|d\u00E9teste)\b/i
  [pattern |-> Concat(<<WordBoundary, Lit(<<106>>), Repeat(Class({39}), 0, 1), Group(Alt(<<Lit(<<97, 105, 109, 101>>), Lit(<<97, 100, 111, 114, 101>>), Lit(<<112, 114, 233, 102, 232, 114, 101>>), Lit(<<100, 233, 116, 101, 115, 116, 101>>)>>)), WordBoundary>>), flags |-> {"i"}, category |-> "preference", lang |-> "fr"],
  \* line 583: /\bje n['']?aime pas\b/i
  [pattern |-> Concat(<<WordBoundary, Lit(<<106, 101, 32, 110>>), Repeat(Class({39}), 0, 1), Lit(<<97, 105, 109, 101, 32, 112, 97, 115>>), WordBoundary>>), flags |-> {"i"}, category |-> "preference", lang |-> "fr"],
  \* line 584: /\bmon (pr\u00E9f\u00E9r\u00E9|favori)\b/i
  [pattern |-> Concat(<<WordBoundary, Lit(<<109, 111, 110, 32>>), Group(Alt(<<Lit(<<112, 114, 233, 102, 233, 114, 233>>), Lit(<<102, 97, 118, 111, 114, 105>>)>>)), WordBoundary>>), flags |-> {"i"}, category |-> "preference", lang |-> "fr"],
  \* line 587: /\bme (gusta|encanta|prefiero)\b/i
  [pattern |-> Concat(<<WordBoundary, Lit(<<109, 101, 32>>), Group(Alt(<<Lit(<<103, 117, 115, 116, 97>>), Lit(<<101, 110, 99, 97, 110, 116, 97>>), Lit(<<112, 114, 101, 102, 105, 101, 114, 111>>)>>)), WordBoundary>>), flags |-> {"i"}, category |-> "preference", lang |-> "es"],
  \* line 588: /\bno me gusta\b/i
  [pattern |-> Concat(<<WordBoundary, Lit(<<110, 111, 32, 109, 101, 32, 103, 117, 115, 116, 97>>), WordBoundary>>), flags |-> {"i"}, category |-> "preference", lang |-> "es"],
  \* line 589: /\bodio\b/i
  [pattern |-> Concat(<<WordBoundary, Lit(<<111, 100, 105, 111>>), WordBoundary>>), flags |-> {"i"}, category |-> "preference", lang |-> "es"],
  \* line 590: /\bmi favorito\b/i
  [pattern |-> Concat(<<WordBoundary, Lit(<<109, 105, 32, 102, 97, 118, 111, 114, 105, 116, 111>>), WordBoundary>>), flags |-> {"i"}, category |-> "preference", lang |-> "es"],
  \* line 593: /\bmi (piace|piacciono|preferisco)\b/i
  [pattern |-> Concat(<<WordBoundary, Lit(<<109, 105, 32>>), Group(Alt(<<Lit(<<112, 105, 97, 99, 101>>), Lit(<<112, 105, 97, 99, 99, 105, 111, 110, 111>>), Lit(<<112, 114, 101, 102, 101, 114, 105, 115, 99, 111>>)>>)), WordBoundary>>), flags |-> {"i"}, category |-> "preference", lang |-> "it"],
  \* line 594: /\bnon mi piace\b/i
  [pattern |-> Concat(<<WordBoundary, Lit(<<110, 111, 110, 32, 109, 105, 32, 112, 105, 97, 99, 101>>), WordBoundary>>), flags |-> {"i"}, category |-> "preference", lang |-> "it"],
  \* line 595: /\bil mio preferito\b/i
  [pattern |-> Concat(<<WordBoundary, Lit(<<105, 108, 32, 109, 105, 111, 32, 112, 114, 101, 102, 101, 114, 105, 116, 111>>), WordBoundary>>), flags |-> {"i"}, category |-> "preference", lang |-> "it"],
  \* line 598: /\b(eu )?(gosto|adoro|prefiro)\b/i
  [pattern |-> Concat(<<WordBoundary, Repeat(Group(Lit(<<101, 117, 32>>)), 0, 1), Group(Alt(<<Lit(<<103, 111, 115, 116, 111>>), Lit(<<97, 100, 111, 114, 111>>), Lit(<<112, 114, 101, 102, 105, 114, 111>>)>>)), WordBoundary>>), flags |-> {"i"}, category |-> "preference", lang |-> "pt"],
  \* line 599: /\bn\u00E3o gosto\b/i
  [pattern |-> Concat(<<WordBoundary, Lit(<<110, 227, 111, 32, 103, 111, 115, 116, 111>>), WordBoundary>>), flags |-> {"i"}, category |-> "preference", lang |-> "pt"],
  \* line 600: /\bodeio\b/i
  [pattern |-> Concat(<<WordBoundary, Lit(<<111, 100, 101, 105, 111>>), WordBoundary>>), flags |-> {"i"}, category |-> "preference", lang |-> "pt"],
  \* line 601: /\bmeu favorito\b/i
  [pattern |-> Concat(<<WordBoundary, Lit(<<109, 101, 117, 32, 102, 97, 118, 111, 114, 105, 116, 111>>), WordBoundary>>), flags |-> {"i"}, category |-> "preference", lang |-> "pt"],
  \* line 604: /\bich (mag|liebe|bevorzuge|hasse)\b/i
  [pattern |-> Concat(<<WordBoundary, Lit(<<105, 99, 104, 32>>), Group(Alt(<<Lit(<<109, 97, 103>>), Lit(<<108, 105, 101, 98, 101>>), Lit(<<98, 101, 118, 111, 114, 122, 117, 103, 101>>), Lit(<<104, 97, 115, 115, 101>>)>>)), WordBoundary>>), flags |-> {"i"}, category |-> "preference", lang |-> "de"],
  \* line 605: /\bich mag nicht\b/i
  [pattern |-> Concat(<<WordBoundary, Lit(<<105, 99, 104, 32, 109, 97, 103, 32, 110, 105, 99, 104, 116>>), WordBoundary>>), flags |-> {"i"}, category |-> "preference", lang |-> "de"],
  \* line 606: /\bmein (lieblings|favorit)\b/i
  [pattern |-> Concat(<<WordBoundary, Lit(<<109, 101, 105, 110, 32>>), Group(Alt(<<Lit(<<108, 105, 101, 98, 108, 105, 110, 103, 115>>), Lit(<<102, 97, 118, 111, 114, 105, 116>>)>>)), WordBoundary>>), flags |-> {"i"}, category |-> "preference", lang |-> "de"]
  >>

\* triggers.ts lines 612-667
DECISION_TRIGGERS ==
  <<
  \* line 614: /\b(we |i )?decided\b/i
  [pattern |-> Concat(<<WordBoundary, Repeat(Group(Alt(<<Lit(<<119, 101, 32>>), Lit(<<105, 32>>)>>)), 0, 1), Lit(<<100, 101, 99, 105, 100, 101, 100>>), WordBoundary>>), flags |-> {"i"}, category |-> "decision", lang |-> "en"],
  \* line 615: /\b(we'?ll|i'?ll) (use|go with|choose)\b/i
  [pattern |-> Concat(<<WordBoundary, Group(Alt(<<Concat(<<Lit(<<119, 101>>), Repeat(Lit(<<39>>), 0, 1), Lit(<<108, 108>>)>>), Concat(<<Lit(<<105>>), Repeat(Lit(<<39>>), 0, 1), Lit(<<108, 108>>)>>)>>)), Lit(<<32>>), Group(Alt(<<Lit(<<117, 115, 101>>), Lit(<<103, 111, 32, 119, 105, 116, 104>>), Lit(<<99, 104, 111, 111, 115, 101>>)>>)), WordBoundary>>), flags |-> {"i"}, category |-> "decision", lang |-> "en"],
  \* line 616: /\blet'?s (use|go with|stick with)\b/i
  [pattern |-> Concat(<<WordBoundary, Lit(<<108, 101, 116>>), Repeat(Lit(<<39>>), 0, 1), Lit(<<115, 32>>), Group(Alt(<<Lit(<<117, 115, 101>>), Lit(<<103, 111, 32, 119, 105, 116, 104>>), Lit(<<115, 116, 105, 99, 107, 32, 119, 105, 116, 104>>)>>)), WordBoundary>>), flags |-> {"i"}, category |-> "decision", lang |-> "en"],
  \* line 617: /\bfrom now on\b/i
  [pattern |-> Concat(<<WordBoundary, Lit(<<102, 114, 111, 109, 32, 110, 111, 119, 32, 111, 110>>), WordBoundary>>), flags |-> {"i"}, category |-> "decision", lang |-> "en"],
  \* line 620: /(\u043C\u044B )?\u0440\u0435\u0448\u0438\u043B\u0438/i
  [pattern |-> Concat(<<Repeat(Group(Lit(<<1084, 1099, 32>>)), 0, 1), Lit(<<1088, 1077, 1096, 1080, 1083, 1080>>)>>), flags |-> {"i"}, category |-> "decision", lang |-> "ru"],
  \* line 621: /\u0431\u0443\u0434\u0435\u043C (\u0438\u0441\u043F\u043E\u043B\u044C\u0437\u043E\u0432\u0430\u0442\u044C|\u043F\u0440\u0438\u043C\u0435\u043D\u044F\u0442\u044C)/i
  [pattern |-> Concat(<<Lit(<<1073, 1091, 1076, 1077, 1084, 32>>), Group(Alt(<<Lit(<<1080, 1089, 1087, 1086, 1083, 1100, 1079, 1086, 1074, 1072, 1090, 1100>>), Lit(<<1087, 1088, 1080, 1084, 1077, 1085, 1103, 1090, 1100>>)>>))>>), flags |-> {"i"}, category |-> "decision", lang |-> "ru"],
  \* line 622: /\u0434\u0430\u0432\u0430\u0439 (\u0438\u0441\u043F\u043E\u043B\u044C\u0437\u043E\u0432\u0430\u0442\u044C|\u043F\u0440\u0438\u043C\u0435\u043D\u044F\u0442\u044C)/i
  [pattern |-> Concat(<<Lit(<<1076, 1072, 1074, 1072, 1081, 32>>), Group(Alt(<<Lit(<<1080, 1089, 1087, 1086, 1083, 1100, 1079, 1086, 1074, 1072, 1090, 1100>>), Lit(<<1087, 1088, 1080, 1084, 1077, 1085, 1103, 1090, 1100>>)>>))>>), flags |-> {"i"}, category |-> "decision", lang |-> "ru"],
  \* line 623: /\u043E\u0442\u043D\u044B\u043D\u0435/i
  [pattern |-> Lit(<<1086, 1090, 1085, 1099, 1085, 1077>>), flags |-> {"i"}, category |-> "decision", lang |-> "ru"],
  \* line 624: /\u0442\u0435\u043F\u0435\u0440\u044C \u0432\u0441\u0435\u0433\u0434\u0430/i
  [pattern |-> Lit(<<1090, 1077, 1087, 1077, 1088, 1100, 32, 1074, 1089, 1077, 1075, 1076, 1072>>), flags |-> {"i"}, category |-> "decision", lang |-> "ru"],
  \* line 627: /(\u043C\u0438 )?\u0432\u0438\u0440\u0456\u0448\u0438\u043B\u0438/i
  [pattern |-> Concat(<<Repeat(Group(Lit(<<1084, 1080, 32>>)), 0, 1), Lit(<<1074, 1080, 1088, 1110, 1096, 1080, 1083, 1080>>)>>), flags |-> {"i"}, category |-> "decision", lang |-> "uk"],
  \* line 628: /\u0431\u0443\u0434\u0435\u043C\u043E (\u0432\u0438\u043A\u043E\u0440\u0438\u0441\u0442\u043E\u0432\u0443\u0432\u0430\u0442\u0438|\u0437\u0430\u0441\u0442\u043E\u0441\u043E\u0432\u0443\u0432\u0430\u0442\u0438)/i
  [pattern |-> Concat(<<Lit(<<1073, 1091, 1076, 1077, 1084, 1086, 32>>), Group(Alt(<<Lit(<<1074, 1080, 1082, 1086, 1088, 1080, 1089, 1090, 1086, 1074, 1091, 1074, 1072, 1090, 1080>>), Lit(<<1079, 1072, 1089, 1090, 1086, 1089, 1086, 1074, 1091, 1074, 1072, 1090, 1080>>)>>))>>), flags |-> {"i"}, category |-> "decision", lang |-> "uk"],
  \* line 631: /(\u043C\u044B )?\u0432\u044B\u0440\u0430\u0448\u044B\u043B\u0456/i
  [pattern |-> Concat(<<Repeat(Group(Lit(<<1084, 1099, 32>>)), 0, 1), Lit(<<1074, 1099, 1088, 1072, 1096, 1099, 1083, 1110>>)>>), flags |-> {"i"}, category |-> "decision", lang |-> "by"],
  \* line 632: /\u0431\u0443\u0434\u0437\u0435\u043C (\u0432\u044B\u043A\u0430\u0440\u044B\u0441\u0442\u043E\u045E\u0432\u0430\u0446\u044C|\u0443\u0436\u044B\u0432\u0430\u0446\u044C)/i
  [pattern |-> Concat(<<Lit(<<1073, 1091, 1076, 1079, 1077, 1084, 32>>), Group(Alt(<<Lit(<<1074, 1099, 1082, 1072, 1088, 1099, 1089, 1090, 1086, 1118, 1074, 1072, 1094, 1100>>), Lit(<<1091, 1078, 1099, 1074, 1072, 1094, 1100>>)>>))>>), flags |-> {"i"}, category |-> "decision", lang |-> "by"],
  \* line 635: /(\u0431\u0456\u0437 )?\u0448\u0435\u0448\u0442\u0456\u043A/i
  [pattern |-> Concat(<<Repeat(Group(Lit(<<1073, 1110, 1079, 32>>)), 0, 1), Lit(<<1096, 1077, 1096, 1090, 1110, 1082>>)>>), flags |-> {"i"}, category |-> "decision", lang |-> "kk"],
  \* line 636: /\u049B\u043E\u043B\u0434\u0430\u043D\u0430\u043C\u044B\u0437/i
  [pattern |-> Lit(<<1179, 1086, 1083, 1076, 1072, 1085, 1072, 1084, 1099, 1079>>), flags |-> {"i"}, category |-> "decision", lang |-> "kk"],
  \* line 637: /\u0431\u0430\u0441\u0442\u0430\u043F/i
  [pattern |-> Lit(<<1073, 1072, 1089, 1090, 1072, 1087>>), flags |-> {"i"}, category |-> "decision", lang |-> "kk"],
  \* line 640: /\brozhodli jsme\b/i
  [pattern |-> Concat(<<WordBoundary, Lit(<<114, 111, 122, 104, 111, 100, 108, 105, 32, 106, 115, 109, 101>>), WordBoundary>>), flags |-> {"i"}, category |-> "decision", lang |-> "cz"],
  \* line 641: /\bbudeme pou\u017E\u00EDvat\b/i
  [pattern |-> Concat(<<WordBoundary, Lit(<<98, 117, 100, 101, 109, 101, 32, 112, 111, 117, 382, 237, 118, 97, 116>>), WordBoundary>>), flags |-> {"i"}, category |-> "decision", lang |-> "cz"],
  \* line 644: /\b(on |nous )?a d\u00E9cid\u00E9\b/i
  [pattern |-> Concat(<<WordBoundary, Repeat(Group(Alt(<<Lit(<<111, 110, 32>>), Lit(<<110, 111, 117, 115, 32>>)>>)), 0, 1), Lit(<<97, 32, 100, 233, 99, 105, 100, 233>>), WordBoundary>>), flags |-> {"i"}, category |-> "decision", lang |-> "fr"],
  \* line 645: /\bon va utiliser\b/i
  [pattern |-> Concat(<<WordBoundary, Lit(<<111, 110, 32, 118, 97, 32, 117, 116, 105, 108, 105, 115, 101, 114>>), WordBoundary>>), flags |-> {"i"}, category |-> "decision", lang |-> "fr"],
  \* line 646: /\bd\u00E9sormais\b/i
  [pattern |-> Concat(<<WordBoundary, Lit(<<100, 233, 115, 111, 114, 109, 97, 105, 115>>), WordBoundary>>), flags |-> {"i"}, category |-> "decision", lang |-> "fr"],
  \* line 649: /\b(hemos )?decidido\b/i
  [pattern |-> Concat(<<WordBoundary, Repeat(Group(Lit(<<104, 101, 109, 111, 115, 32>>)), 0, 1), Lit(<<100, 101, 99, 105, 100, 105, 100, 111>>), WordBoundary>>), flags |-> {"i"}, category |-> "decision", lang |-> "es"],
  \* line 650: /\bvamos a usar\b/i
  [pattern |-> Concat(<<WordBoundary, Lit(<<118, 97, 109, 111, 115, 32, 97, 32, 117, 115, 97, 114>>), WordBoundary>>), flags |-> {"i"}, category |-> "decision", lang |-> "es"],
  \* line 651: /\ba partir de ahora\b/i
  [pattern |-> Concat(<<WordBoundary, Lit(<<97, 32, 112, 97, 114, 116, 105, 114, 32, 100, 101, 32, 97, 104, 111, 114, 97>>), WordBoundary>>), flags |-> {"i"}, category |-> "decision", lang |-> "es"],
  \* line 654: /\b(abbiamo )?deciso\b/i
  [pattern |-> Concat(<<WordBoundary, Repeat(Group(Lit(<<97, 98, 98, 105, 97, 109, 111, 32>>)), 0, 1), Lit(<<100, 101, 99, 105, 115, 111>>), WordBoundary>>), flags |-> {"i"}, category |-> "decision", lang |-> "it"],
  \* line 655: /\buseremo\b/i
  [pattern |-> Concat(<<WordBoundary, Lit(<<117, 115, 101, 114, 101, 109, 111>>), WordBoundary>>), flags |-> {"i"}, category |-> "decision", lang |-> "it"],
  \* line 656: /\bd['']?ora in poi\b/i
  [pattern |-> Concat(<<WordBoundary, Lit(<<100>>), Repeat(Class({39}), 0, 1), Lit(<<111, 114, 97, 32, 105, 110, 32, 112, 111, 105>>), WordBoundary>>), flags |-> {"i"}, category |-> "decision", lang |-> "it"],
  \* line 659: /\b(n\u00F3s )?decidimos\b/i
  [pattern |-> Concat(<<WordBoundary, Repeat(Group(Lit(<<110, 243, 115, 32>>)), 0, 1), Lit(<<100, 101, 99, 105, 100, 105, 109, 111, 115>>), WordBoundary>>), flags |-> {"i"}, category |-> "decision", lang |-> "pt"],
  \* line 660: /\bvamos usar\b/i
  [pattern |-> Concat(<<WordBoundary, Lit(<<118, 97, 109, 111, 115, 32, 117, 115, 97, 114>>), WordBoundary>>), flags |-> {"i"}, category |-> "decision", lang |-> "pt"],
  \* line 661: /\ba partir de agora\b/i
  [pattern |-> Concat(<<WordBoundary, Lit(<<97, 32, 112, 97, 114, 116, 105, 114, 32, 100, 101, 32, 97, 103, 111, 114, 97>>), WordBoundary>>), flags |-> {"i"}, category |-> "decision", lang |-> "pt"],
  \* line 664: /\bwir haben (uns )?(entschieden|beschlossen)\b/i
  [pattern |-> Concat(<<WordBoundary, Lit(<<119, 105, 114, 32, 104, 97, 98, 101, 110, 32>>), Repeat(Group(Lit(<<117, 110, 115, 32>>)), 0, 1), Group(Alt(<<Lit(<<101, 110, 116, 115, 99, 104, 105, 101, 100, 101, 110>>), Lit(<<98, 101, 115, 99, 104, 108, 111, 115, 115, 101, 110>>)>>)), WordBoundary>>), flags |-> {"i"}, category |-> "decision", lang |-> "de"],
  \* line 665: /\bwir werden (benutzen|verwenden)\b/i
  [pattern |-> Concat(<<WordBoundary, Lit(<<119, 105, 114, 32, 119, 101, 114, 100, 101, 110, 32>>), Group(Alt(<<Lit(<<98, 101, 110, 117, 116, 122, 101, 110>>), Lit(<<118, 101, 114, 119, 101, 110, 100, 101, 110>>)>>)), WordBoundary>>), flags |-> {"i"}, category |-> "decision", lang |-> "de"],
  \* line 666: /\bab jetzt\b/i
  [pattern |-> Concat(<<WordBoundary, Lit(<<97, 98, 32, 106, 101, 116, 122, 116>>), WordBoundary>>), flags |-> {"i"}, category |-> "decision", lang |-> "de"]
  >>

\* triggers.ts lines 672-744
IDENTITY_TRIGGERS ==
  <<
  \* line 677: /\+\d{1,4}[\s\-\(]\d/
  [pattern |-> Concat(<<Lit(<<43>>), Repeat(Class(Digits), 1, 4), Class(WhiteSpace \cup {45, 40}), Class(Digits)>>), flags |-> {}, category |-> "identity", lang |-> "common", weight |-> 2],
  \* line 679: /\b8[\s\-\(]\d{3}/
  [pattern |-> Concat(<<WordBoundary, Lit(<<56>>), Class(WhiteSpace \cup {45, 40}), Repeat(Class(Digits), 3, 3)>>), flags |-> {}, category |-> "identity", lang |-> "common", weight |-> 2],
  \* line 681: /\b\d{3}[\s\-]\d{3}[\s\-]\d/
  [pattern |-> Concat(<<WordBoundary, Repeat(Class(Digits), 3, 3), Class(WhiteSpace \cup {45}), Repeat(Class(Digits), 3, 3), Class(WhiteSpace \cup {45}), Class(Digits)>>), flags |-> {}, category |-> "identity", lang |-> "common", weight |-> 2],
  \* line 683: /[\w.-]+@[\w.-]+\.\w{2,}/
  [pattern |-> Concat(<<Repeat(Class(WordChars \cup {46, 45}), 1, Unbounded), Lit(<<64>>), Repeat(Class(WordChars \cup {46, 45}), 1, Unbounded), Lit(<<46>>), Repeat(Class(WordChars), 2, Unbounded)>>), flags |-> {}, category |-> "identity", lang |-> "common", weight |-> 2],
  \* line 686: /\bmy name is\b/i
  [pattern |-> Concat(<<WordBoundary, Lit(<<109, 121, 32, 110, 97, 109, 101, 32, 105, 115>>), WordBoundary>>), flags |-> {"i"}, category |-> "identity", lang |-> "en", weight |-> 2],
  \* line 687: /\bi('?m| am) called\b/i
  [pattern |-> Concat(<<WordBoundary, Lit(<<105>>), Group(Alt(<<Concat(<<Repeat(Lit(<<39>>), 0, 1), Lit(<<109>>)>>), Lit(<<32, 97, 109>>)>>)), Lit(<<32, 99, 97, 108, 108, 101, 100>>), WordBoundary>>), flags |-> {"i"}, category |-> "identity", lang |-> "en"],
  \* line 688: /\bcall me\b/i
  [pattern |-> Concat(<<WordBoundary, Lit(<<99, 97, 108, 108, 32, 109, 101>>), WordBoundary>>), flags |-> {"i"}, category |-> "identity", lang |-> "en"],
  \* line 689: /\bmy (phone|email|address|birthday)\b/i
  [pattern |-> Concat(<<WordBoundary, Lit(<<109, 121, 32>>), Group(Alt(<<Lit(<<112, 104, 111, 110, 101>>), Lit(<<101, 109, 97, 105, 108>>), Lit(<<97, 100, 100, 114, 101, 115, 115>>), Lit(<<98, 105, 114, 116, 104, 100, 97, 121>>)>>)), WordBoundary>>), flags |-> {"i"}, category |-> "identity", lang |-> "en"],
  \* line 692: /\u043C\u0435\u043D\u044F \u0437\u043E\u0432\u0443\u0442/i
  [pattern |-> Lit(<<1084, 1077, 1085, 1103, 32, 1079, 1086, 1074, 1091, 1090>>), flags |-> {"i"}, category |-> "identity", lang |-> "ru", weight |-> 2],
  \* line 693: /\u043C\u043E\u0451? \u0438\u043C\u044F/i
  [pattern |-> Concat(<<Lit(<<1084, 1086>>), Repeat(Lit(<<1105>>), 0, 1), Lit(<<32, 1080, 1084, 1103>>)>>), flags |-> {"i"}, category |-> "identity", lang |-> "ru", weight |-> 2],
  \* line 694: /\u043C\u043D\u0435 .* (\u0433\u043E\u0434|\u0433\u043E\u0434\u0430|\u043B\u0435\u0442)/i
  [pattern |-> Concat(<<Lit(<<1084, 1085, 1077, 32>>), Repeat(AnyChar, 0, Unbounded), Lit(<<32>>), Group(Alt(<<Lit(<<1075, 1086, 1076>>), Lit(<<1075, 1086, 1076, 1072>>), Lit(<<1083, 1077, 1090>>)>>))>>), flags |-> {"i"}, category |-> "identity", lang |-> "ru", weight |-> 2],
  \* line 695: /\u0437\u043E\u0432\u0438 \u043C\u0435\u043D\u044F/i
  [pattern |-> Lit(<<1079, 1086, 1074, 1080, 32, 1084, 1077, 1085, 1103>>), flags |-> {"i"}, category |-> "identity", lang |-> "ru"],
  \* line 696: /\u043C\u043E\u0439 (\u0442\u0435\u043B\u0435\u0444\u043E\u043D|email|\u0430\u0434\u0440\u0435\u0441|\u0434\u0435\u043D\u044C \u0440\u043E\u0436\u0434\u0435\u043D\u0438\u044F)/i
  [pattern |-> Concat(<<Lit(<<1084, 1086, 1081, 32>>), Group(Alt(<<Lit(<<1090, 1077, 1083, 1077, 1092, 1086, 1085>>), Lit(<<101, 109, 97, 105, 108>>), Lit(<<1072, 1076, 1088, 1077, 1089>>), Lit(<<1076, 1077, 1085, 1100, 32, 1088, 1086, 1078, 1076, 1077, 1085, 1080, 1103>>)>>))>>), flags |-> {"i"}, category |-> "identity", lang |-> "ru"],
  \* line 699: /\u043C\u0435\u043D\u0435 \u0437\u0432\u0430\u0442\u0438/i
  [pattern |-> Lit(<<1084, 1077, 1085, 1077, 32, 1079, 1074, 1072, 1090, 1080>>), flags |-> {"i"}, category |-> "identity", lang |-> "uk", weight |-> 2],
  \* line 700: /\u043C\u043E\u0454 \u0456\u043C['']?\u044F/i
  [pattern |-> Concat(<<Lit(<<1084, 1086, 1108, 32, 1110, 1084>>), Repeat(Class({39}), 0, 1), Lit(<<1103>>)>>), flags |-> {"i"}, category |-> "identity", lang |-> "uk", weight |-> 2],
  \* line 703: /\u043C\u044F\u043D\u0435 \u0437\u0430\u0432\u0443\u0446\u044C/i
  [pattern |-> Lit(<<1084, 1103, 1085, 1077, 32, 1079, 1072, 1074, 1091, 1094, 1100>>), flags |-> {"i"}, category |-> "identity", lang |-> "by", weight |-> 2],
  \* line 704: /\u043C\u0430\u0451 \u0456\u043C\u044F/i
  [pattern |-> Lit(<<1084, 1072, 1105, 32, 1110, 1084, 1103>>), flags |-> {"i"}, category |-> "identity", lang |-> "by", weight |-> 2],
  \* line 707: /\u043C\u0435\u043D\u0456\u04A3 \u0430\u0442\u044B\u043C/i
  [pattern |-> Lit(<<1084, 1077, 1085, 1110, 1187, 32, 1072, 1090, 1099, 1084>>), flags |-> {"i"}, category |-> "identity", lang |-> "kk", weight |-> 2],
  \* line 708: /\u043C\u0435\u043D\u0456 .+ \u0434\u0435\u043F \u0430\u0442\u0430\u04A3\u044B\u0437/i
  [pattern |-> Concat(<<Lit(<<1084, 1077, 1085, 1110, 32>>), Repeat(AnyChar, 1, Unbounded), Lit(<<32, 1076, 1077, 1087, 32, 1072, 1090, 1072, 1187, 1099, 1079>>)>>), flags |-> {"i"}, category |-> "identity", lang |-> "kk"],
  \* line 709: /\u043C\u0435\u043D\u0456\u04A3 (\u0442\u0435\u043B\u0435\u0444\u043E\u043D|email|\u043C\u0435\u043A\u0435\u043D\u0436\u0430\u0439)/i
  [pattern |-> Concat(<<Lit(<<1084, 1077, 1085, 1110, 1187, 32>>), Group(Alt(<<Lit(<<1090, 1077, 1083, 1077, 1092, 1086, 1085>>), Lit(<<101, 109, 97, 105, 108>>), Lit(<<1084, 1077, 1082, 1077, 1085, 1078, 1072, 1081>>)>>))>>), flags |-> {"i"}, category |-> "identity", lang |-> "kk"],
  \* line 712: /\bjmenuji se\b/i
  [pattern |-> Concat(<<WordBoundary, Lit(<<106, 109, 101, 110, 117, 106, 105, 32, 115, 101>>), WordBoundary>>), flags |-> {"i"}, category |-> "identity", lang |-> "cz", weight |-> 2],
  \* line 713: /\b\u0159\u00EDkej mi\b/i
  [pattern |-> Concat(<<WordBoundary, Lit(<<345, 237, 107, 101, 106, 32, 109, 105>>), WordBoundary>>), flags |-> {"i"}, category |-> "identity", lang |-> "cz"],
  \* line 716: /\bje m['']?appelle\b/i
  [pattern |-> Concat(<<WordBoundary, Lit(<<106, 101, 32, 109>>), Repeat(Class({39}), 0, 1), Lit(<<97, 112, 112, 101, 108, 108, 101>>), WordBoundary>>), flags |-> {"i"}, category |-> "identity", lang |-> "fr", weight |-> 2],
  \* line 717: /\bmon nom est\b/i
  [pattern |-> Concat(<<WordBoundary, Lit(<<109, 111, 110, 32, 110, 111, 109, 32, 101, 115, 116>>), WordBoundary>>), flags |-> {"i"}, category |-> "identity", lang |-> "fr", weight |-> 2],
  \* line 718: /\bappelle[- ]moi\b/i
  [pattern |-> Concat(<<WordBoundary, Lit(<<97, 112, 112, 101, 108, 108, 101>>), Class({45, 32}), Lit(<<109, 111, 105>>), WordBoundary>>), flags |-> {"i"}, category |-> "identity", lang |-> "fr"],
  \* line 719: /\bmon (t\u00E9l\u00E9phone|email|adresse)\b/i
  [pattern |-> Concat(<<WordBoundary, Lit(<<109, 111, 110, 32>>), Group(Alt(<<Lit(<<116, 233, 108, 233, 112, 104, 111, 110, 101>>), Lit(<<101, 109, 97, 105, 108>>), Lit(<<97, 100, 114, 101, 115, 115, 101>>)>>)), WordBoundary>>), flags |-> {"i"}, category |-> "identity", lang |-> "fr"],
  \* line 722: /\bme llamo\b/i
  [pattern |-> Concat(<<WordBoundary, Lit(<<109, 101, 32, 108, 108, 97, 109, 111>>), WordBoundary>>), flags |-> {"i"}, category |-> "identity", lang |-> "es", weight |-> 2],
  \* line 723: /\bmi nombre es\b/i
  [pattern |-> Concat(<<WordBoundary, Lit(<<109, 105, 32, 110, 111, 109, 98, 114, 101, 32, 101, 115>>), WordBoundary>>), flags |-> {"i"}, category |-> "identity", lang |-> "es", weight |-> 2],
  \* line 724: /\bll\u00E1mame\b/i
  [pattern |-> Concat(<<WordBoundary, Lit(<<108, 108, 225, 109, 97, 109, 101>>), WordBoundary>>), flags |-> {"i"}, category |-> "identity", lang |-> "es"],
  \* line 725: /\bmi (tel\u00E9fono|email|direcci\u00F3n|cumplea\u00F1os)\b/i
  [pattern |-> Concat(<<WordBoundary, Lit(<<109, 105, 32>>), Group(Alt(<<Lit(<<116, 101, 108, 233, 102, 111, 110, 111>>), Lit(<<101, 109, 97, 105, 108>>), Lit(<<100, 105, 114, 101, 99, 99, 105, 243, 110>>), Lit(<<99, 117, 109, 112, 108, 101, 97, 241, 111, 115>>)>>)), WordBoundary>>), flags |-> {"i"}, category |-> "identity", lang |-> "es"],
  \* line 728: /\bmi chiamo\b/i
  [pattern |-> Concat(<<WordBoundary, Lit(<<109, 105, 32, 99, 104, 105, 97, 109, 111>>), WordBoundary>>), flags |-> {"i"}, category |-> "identity", lang |-> "it", weight |-> 2],
  \* line 729: /\bil mio nome \u00E8\b/i
  [pattern |-> Concat(<<WordBoundary, Lit(<<105, 108, 32, 109, 105, 111, 32, 110, 111, 109, 101, 32, 232>>), WordBoundary>>), flags |-> {"i"}, category |-> "identity", lang |-> "it", weight |-> 2],
  \* line 730: /\bchiamami\b/i
  [pattern |-> Concat(<<WordBoundary, Lit(<<99, 104, 105, 97, 109, 97, 109, 105>>), WordBoundary>>), flags |-> {"i"}, category |-> "identity", lang |-> "it"],
  \* line 731: /\bil mio (telefono|email|indirizzo)\b/i
  [pattern |-> Concat(<<WordBoundary, Lit(<<105, 108, 32, 109, 105, 111, 32>>), Group(Alt(<<Lit(<<116, 101, 108, 101, 102, 111, 110, 111>>), Lit(<<101, 109, 97, 105, 108>>), Lit(<<105, 110, 100, 105, 114, 105, 122, 122, 111>>)>>)), WordBoundary>>), flags |-> {"i"}, category |-> "identity", lang |-> "it"],
  \* line 734: /\b(eu )?me chamo\b/i
  [pattern |-> Concat(<<WordBoundary, Repeat(Group(Lit(<<101, 117, 32>>)), 0, 1), Lit(<<109, 101, 32, 99, 104, 97, 109, 111>>), WordBoundary>>), flags |-> {"i"}, category |-> "identity", lang |-> "pt", weight |-> 2],
  \* line 735: /\bmeu nome \u00E9\b/i
  [pattern |-> Concat(<<WordBoundary, Lit(<<109, 101, 117, 32, 110, 111, 109, 101, 32, 233>>), WordBoundary>>), flags |-> {"i"}, category |-> "identity", lang |-> "pt", weight |-> 2],
  \* line 736: /\bchama[- ]me\b/i
  [pattern |-> Concat(<<WordBoundary, Lit(<<99, 104, 97, 109, 97>>), Class({45, 32}), Lit(<<109, 101>>), WordBoundary>>), flags |-> {"i"}, category |-> "identity", lang |-> "pt"],
  \* line 737: /\bmeu (telefone|email|endere\u00E7o)\b/i
  [pattern |-> Concat(<<WordBoundary, Lit(<<109, 101, 117, 32>>), Group(Alt(<<Lit(<<116, 101, 108, 101, 102, 111, 110, 101>>), Lit(<<101, 109, 97, 105, 108>>), Lit(<<101, 110, 100, 101, 114, 101, 231, 111>>)>>)), WordBoundary>>), flags |-> {"i"}, category |-> "identity", lang |-> "pt"],
  \* line 740: /\bich hei\u00DFe\b/i
  [pattern |-> Concat(<<WordBoundary, Lit(<<105, 99, 104, 32, 104, 101, 105, 223, 101>>), WordBoundary>>), flags |-> {"i"}, category |-> "identity", lang |-> "de", weight |-> 2],
  \* line 741: /\bmein name ist\b/i
  [pattern |-> Concat(<<WordBoundary, Lit(<<109, 101, 105, 110, 32, 110, 97, 109, 101, 32, 105, 115, 116>>), WordBoundary>>), flags |-> {"i"}, category |-> "identity", lang |-> "de", weight |-> 2],
  \* line 742: /\bnenn mich\b/i
  [pattern |-> Concat(<<WordBoundary, Lit(<<110, 101, 110, 110, 32, 109, 105, 99, 104>>), WordBoundary>>), flags |-> {"i"}, category |-> "identity", lang |-> "de"],
  \* line 743: /\bmeine? (telefon|email|adresse|geburtstag)\b/i
  [pattern |-> Concat(<<WordBoundary, Lit(<<109, 101, 105, 110>>), Repeat(Lit(<<101>>), 0, 1), Lit(<<32>>), Group(Alt(<<Lit(<<116, 101, 108, 101, 102, 111, 110>>), Lit(<<101, 109, 97, 105, 108>>), Lit(<<97, 100, 114, 101, 115, 115, 101>>), Lit(<<103, 101, 98, 117, 114, 116, 115, 116, 97, 103>>)>>)), WordBoundary>>), flags |-> {"i"}, category |-> "identity", lang |-> "de"]
  >>

\* triggers.ts lines 749-805
FACT_TRIGGERS ==
  <<
  \* line 751: /\bi('?m| am) (a |an )?[\w]+\b/i
  [pattern |-> Concat(<<WordBoundary, Lit(<<105>>), Group(Alt(<<Concat(<<Repeat(Lit(<<39>>), 0, 1), Lit(<<109>>)>>), Lit(<<32, 97, 109>>)>>)), Lit(<<32>>), Repeat(Group(Alt(<<Lit(<<97, 32>>), Lit(<<97, 110, 32>>)>>)), 0, 1), Repeat(Class(WordChars), 1, Unbounded), WordBoundary>>), flags |-> {"i"}, category |-> "fact", lang |-> "en"],
  \* line 752: /\bi (work|live|study) (at|in|for)\b/i
  [pattern |-> Concat(<<WordBoundary, Lit(<<105, 32>>), Group(Alt(<<Lit(<<119, 111, 114, 107>>), Lit(<<108, 105, 118, 101>>), Lit(<<115, 116, 117, 100, 121>>)>>)), Lit(<<32>>), Group(Alt(<<Lit(<<97, 116>>), Lit(<<105, 110>>), Lit(<<102, 111, 114>>)>>)), WordBoundary>>), flags |-> {"i"}, category |-> "fact", lang |-> "en"],
  \* line 753: /\bi have (a |an )?[\w]+\b/i
  [pattern |-> Concat(<<WordBoundary, Lit(<<105, 32, 104, 97, 118, 101, 32>>), Repeat(Group(Alt(<<Lit(<<97, 32>>), Lit(<<97, 110, 32>>)>>)), 0, 1), Repeat(Class(WordChars), 1, Unbounded), WordBoundary>>), flags |-> {"i"}, category |-> "fact", lang |-> "en"],
  \* line 756: /\u044F (\u0440\u0430\u0431\u043E\u0442\u0430\u044E|\u0436\u0438\u0432\u0443|\u0443\u0447\u0443\u0441\u044C)/i
  [pattern |-> Concat(<<Lit(<<1103, 32>>), Group(Alt(<<Lit(<<1088, 1072, 1073, 1086, 1090, 1072, 1102>>), Lit(<<1078, 1080, 1074, 1091>>), Lit(<<1091, 1095, 1091, 1089, 1100>>)>>))>>), flags |-> {"i"}, category |-> "fact", lang |-> "ru"],
  \* line 757: /\u0443 \u043C\u0435\u043D\u044F (\u0435\u0441\u0442\u044C|\u0438\u043C\u0435\u0435\u0442\u0441\u044F)/i
  [pattern |-> Concat(<<Lit(<<1091, 32, 1084, 1077, 1085, 1103, 32>>), Group(Alt(<<Lit(<<1077, 1089, 1090, 1100>>), Lit(<<1080, 1084, 1077, 1077, 1090, 1089, 1103>>)>>))>>), flags |-> {"i"}, category |-> "fact", lang |-> "ru"],
  \* line 758: /\u044F \u043F\u043E \u043F\u0440\u043E\u0444\u0435\u0441\u0441\u0438\u0438/i
  [pattern |-> Lit(<<1103, 32, 1087, 1086, 32, 1087, 1088, 1086, 1092, 1077, 1089, 1089, 1080, 1080>>), flags |-> {"i"}, category |-> "fact", lang |-> "ru"],
  \* line 759: /\u044F \u0438\u0437/i
  [pattern |-> Lit(<<1103, 32, 1080, 1079>>), flags |-> {"i"}, category |-> "fact", lang |-> "ru"],
  \* line 760: /\u044F (\u0431\u044B\u043B\u0430?|\u0436\u0438\u043B\u0430?|\u0431\u044B\u0432\u0430\u043B\u0430?|\u0435\u0437\u0434\u0438\u043B\u0430?|\u0443\u0447\u0438\u043B(?:\u0441\u044F|\u0430\u0441\u044C)|\u0440\u043E\u0434\u0438\u043B(?:\u0441\u044F|\u0430\u0441\u044C))/i
  [pattern |-> Concat(<<Lit(<<1103, 32>>), Group(Alt(<<Concat(<<Lit(<<1073, 1099, 1083>>), Repeat(Lit(<<1072>>), 0, 1)>>), Concat(<<Lit(<<1078, 1080, 1083>>), Repeat(Lit(<<1072>>), 0, 1)>>), Concat(<<Lit(<<1073, 1099, 1074, 1072, 1083>>), Repeat(Lit(<<1072>>), 0, 1)>>), Concat(<<Lit(<<1077, 1079, 1076, 1080, 1083>>), Repeat(Lit(<<1072>>), 0, 1)>>), Concat(<<Lit(<<1091, 1095, 1080, 1083>>), Group(Alt(<<Lit(<<1089, 1103>>), Lit(<<1072, 1089, 1100>>)>>))>>), Concat(<<Lit(<<1088, 1086, 1076, 1080, 1083>>), Group(Alt(<<Lit(<<1089, 1103>>), Lit(<<1072, 1089, 1100>>)>>))>>)>>))>>), flags |-> {"i"}, category |-> "fact", lang |-> "ru"],
  \* line 761: /\u044F \u043F\u043E\u0441\u0435\u0449\u0430\u043B\u0430?/i
  [pattern |-> Concat(<<Lit(<<1103, 32, 1087, 1086, 1089, 1077, 1097, 1072, 1083>>), Repeat(Lit(<<1072>>), 0, 1)>>), flags |-> {"i"}, category |-> "fact", lang |-> "ru"],
  \* line 762: /\u044F \u0437\u0430\u043A\u043E\u043D\u0447\u0438\u043B\u0430?/i
  [pattern |-> Concat(<<Lit(<<1103, 32, 1079, 1072, 1082, 1086, 1085, 1095, 1080, 1083>>), Repeat(Lit(<<1072>>), 0, 1)>>), flags |-> {"i"}, category |-> "fact", lang |-> "ru"],
  \* line 765: /\u044F (\u043F\u0440\u0430\u0446\u044E\u044E|\u0436\u0438\u0432\u0443|\u043D\u0430\u0432\u0447\u0430\u044E\u0441\u044C)/i
  [pattern |-> Concat(<<Lit(<<1103, 32>>), Group(Alt(<<Lit(<<1087, 1088, 1072, 1094, 1102, 1102>>), Lit(<<1078, 1080, 1074, 1091>>), Lit(<<1085, 1072, 1074, 1095, 1072, 1102, 1089, 1100>>)>>))>>), flags |-> {"i"}, category |-> "fact", lang |-> "uk"],
  \* line 766: /\u0443 \u043C\u0435\u043D\u0435 (\u0454|\u043C\u0430\u044E)/i
  [pattern |-> Concat(<<Lit(<<1091, 32, 1084, 1077, 1085, 1077, 32>>), Group(Alt(<<Lit(<<1108>>), Lit(<<1084, 1072, 1102>>)>>))>>), flags |-> {"i"}, category |-> "fact", lang |-> "uk"],
  \* line 769: /\u044F (\u043F\u0440\u0430\u0446\u0443\u044E|\u0436\u044B\u0432\u0443|\u0432\u0443\u0447\u0443\u0441\u044F)/i
  [pattern |-> Concat(<<Lit(<<1103, 32>>), Group(Alt(<<Lit(<<1087, 1088, 1072, 1094, 1091, 1102>>), Lit(<<1078, 1099, 1074, 1091>>), Lit(<<1074, 1091, 1095, 1091, 1089, 1103>>)>>))>>), flags |-> {"i"}, category |-> "fact", lang |-> "by"],
  \* line 770: /\u0443 \u043C\u044F\u043D\u0435 (\u0451\u0441\u0446\u044C|\u043C\u0430\u044E)/i
  [pattern |-> Concat(<<Lit(<<1091, 32, 1084, 1103, 1085, 1077, 32>>), Group(Alt(<<Lit(<<1105, 1089, 1094, 1100>>), Lit(<<1084, 1072, 1102>>)>>))>>), flags |-> {"i"}, category |-> "fact", lang |-> "by"],
  \* line 773: /\u043C\u0435\u043D (\u0436\u04B1\u043C\u044B\u0441 \u0456\u0441\u0442\u0435\u0439\u043C\u0456\u043D|\u0442\u04B1\u0440\u0430\u043C\u044B\u043D|\u043E\u049B\u0438\u043C\u044B\u043D)/i
  [pattern |-> Concat(<<Lit(<<1084, 1077, 1085, 32>>), Group(Alt(<<Lit(<<1078, 1201, 1084, 1099, 1089, 32, 1110, 1089, 1090, 1077, 1081, 1084, 1110, 1085>>), Lit(<<1090, 1201, 1088, 1072, 1084, 1099, 1085>>), Lit(<<1086, 1179, 1080, 1084, 1099, 1085>>)>>))>>), flags |-> {"i"}, category |-> "fact", lang |-> "kk"],
  \* line 774: /\u043C\u0435\u043D\u0434\u0435 (\u0431\u0430\u0440|\u0436\u043E\u049B)/i
  [pattern |-> Concat(<<Lit(<<1084, 1077, 1085, 1076, 1077, 32>>), Group(Alt(<<Lit(<<1073, 1072, 1088>>), Lit(<<1078, 1086, 1179>>)>>))>>), flags |-> {"i"}, category |-> "fact", lang |-> "kk"],
  \* line 775: /\u043C\u0435\u043D .+ \u0431\u043E\u043B\u044B\u043F \u0436\u04B1\u043C\u044B\u0441 \u0456\u0441\u0442\u0435\u0439\u043C\u0456\u043D/i
  [pattern |-> Concat(<<Lit(<<1084, 1077, 1085, 32>>), Repeat(AnyChar, 1, Unbounded), Lit(<<32, 1073, 1086, 1083, 1099, 1087, 32, 1078, 1201, 1084, 1099, 1089, 32, 1110, 1089, 1090, 1077, 1081, 1084, 1110, 1085>>)>>), flags |-> {"i"}, category |-> "fact", lang |-> "kk"],
  \* line 778: /\bpracuji (v|u|pro)\b/i
  [pattern |-> Concat(<<WordBoundary, Lit(<<112, 114, 97, 99, 117, 106, 105, 32>>), Group(Alt(<<Lit(<<118>>), Lit(<<117>>), Lit(<<112, 114, 111>>)>>)), WordBoundary>>), flags |-> {"i"}, category |-> "fact", lang |-> "cz"],
  \* line 779: /\bbydl\u00EDm v\b/i
  [pattern |-> Concat(<<WordBoundary, Lit(<<98, 121, 100, 108, 237, 109, 32, 118>>), WordBoundary>>), flags |-> {"i"}, category |-> "fact", lang |-> "cz"],
  \* line 782: /\bje (travaille|habite|\u00E9tudie)\b/i
  [pattern |-> Concat(<<WordBoundary, Lit(<<106, 101, 32>>), Group(Alt(<<Lit(<<116, 114, 97, 118, 97, 105, 108, 108, 101>>), Lit(<<104, 97, 98, 105, 116, 101>>), Lit(<<233, 116, 117, 100, 105, 101>>)>>)), WordBoundary>>), flags |-> {"i"}, category |-> "fact", lang |-> "fr"],
  \* line 783: /\bj['']?ai (un|une)\b/i
  [pattern |-> Concat(<<WordBoundary, Lit(<<106>>), Repeat(Class({39}), 0, 1), Lit(<<97, 105, 32>>), Group(Alt(<<Lit(<<117, 110>>), Lit(<<117, 110, 101>>)>>)), WordBoundary>>), flags |-> {"i"}, category |-> "fact", lang |-> "fr"],
  \* line 784: /\bje suis (un|une)?\b/i
  [pattern |-> Concat(<<WordBoundary, Lit(<<106, 101, 32, 115, 117, 105, 115, 32>>), Repeat(Group(Alt(<<Lit(<<117, 110>>), Lit(<<117, 110, 101>>)>>)), 0, 1), WordBoundary>>), flags |-> {"i"}, category |-> "fact", lang |-> "fr"],
  \* line 787: /\b(yo )?(trabajo|vivo|estudio) (en|para)\b/i
  [pattern |-> Concat(<<WordBoundary, Repeat(Group(Lit(<<121, 111, 32>>)), 0, 1), Group(Alt(<<Lit(<<116, 114, 97, 98, 97, 106, 111>>), Lit(<<118, 105, 118, 111>>), Lit(<<101, 115, 116, 117, 100, 105, 111>>)>>)), Lit(<<32>>), Group(Alt(<<Lit(<<101, 110>>), Lit(<<112, 97, 114, 97>>)>>)), WordBoundary>>), flags |-> {"i"}, category |-> "fact", lang |-> "es"],
  \* line 788: /\btengo (un|una)\b/i
  [pattern |-> Concat(<<WordBoundary, Lit(<<116, 101, 110, 103, 111, 32>>), Group(Alt(<<Lit(<<117, 110>>), Lit(<<117, 110, 97>>)>>)), WordBoundary>>), flags |-> {"i"}, category |-> "fact", lang |-> "es"],
  \* line 789: /\bsoy (un|una)?\b/i
  [pattern |-> Concat(<<WordBoundary, Lit(<<115, 111, 121, 32>>), Repeat(Group(Alt(<<Lit(<<117, 110>>), Lit(<<117, 110, 97>>)>>)), 0, 1), WordBoundary>>), flags |-> {"i"}, category |-> "fact", lang |-> "es"],
  \* line 792: /\b(io )?(lavoro|vivo|studio) (a|in|per)\b/i
  [pattern |-> Concat(<<WordBoundary, Repeat(Group(Lit(<<105, 111, 32>>)), 0, 1), Group(Alt(<<Lit(<<108, 97, 118, 111, 114, 111>>), Lit(<<118, 105, 118, 111>>), Lit(<<115, 116, 117, 100, 105, 111>>)>>)), Lit(<<32>>), Group(Alt(<<Lit(<<97>>), Lit(<<105, 110>>), Lit(<<112, 101, 114>>)>>)), WordBoundary>>), flags |-> {"i"}, category |-> "fact", lang |-> "it"],
  \* line 793: /\bho (un|una)\b/i
  [pattern |-> Concat(<<WordBoundary, Lit(<<104, 111, 32>>), Group(Alt(<<Lit(<<117, 110>>), Lit(<<117, 110, 97>>)>>)), WordBoundary>>), flags |-> {"i"}, category |-> "fact", lang |-> "it"],
  \* line 794: /\bsono (un|una)?\b/i
  [pattern |-> Concat(<<WordBoundary, Lit(<<115, 111, 110, 111, 32>>), Repeat(Group(Alt(<<Lit(<<117, 110>>), Lit(<<117, 110, 97>>)>>)), 0, 1), WordBoundary>>), flags |-> {"i"}, category |-> "fact", lang |-> "it"],
  \* line 797: /\b(eu )?(trabalho|moro|estudo) (em|para)\b/i
  [pattern |-> Concat(<<WordBoundary, Repeat(Group(Lit(<<101, 117, 32>>)), 0, 1), Group(Alt(<<Lit(<<116, 114, 97, 98, 97, 108, 104, 111>>), Lit(<<109, 111, 114, 111>>), Lit(<<101, 115, 116, 117, 100, 111>>)>>)), Lit(<<32>>), Group(Alt(<<Lit(<<101, 109>>), Lit(<<112, 97, 114, 97>>)>>)), WordBoundary>>), flags |-> {"i"}, category |-> "fact", lang |-> "pt"],
  \* line 798: /\btenho (um|uma)\b/i
  [pattern |-> Concat(<<WordBoundary, Lit(<<116, 101, 110, 104, 111, 32>>), Group(Alt(<<Lit(<<117, 109>>), Lit(<<117, 109, 97>>)>>)), WordBoundary>>), flags |-> {"i"}, category |-> "fact", lang |-> "pt"],
  \* line 799: /\bsou (um|uma)?\b/i
  [pattern |-> Concat(<<WordBoundary, Lit(<<115, 111, 117, 32>>), Repeat(Group(Alt(<<Lit(<<117, 109>>), Lit(<<117, 109, 97>>)>>)), 0, 1), WordBoundary>>), flags |-> {"i"}, category |-> "fact", lang |-> "pt"],
  \* line 802: /\bich (arbeite|wohne|studiere) (bei|in|f\u00FCr)\b/i
  [pattern |-> Concat(<<WordBoundary, Lit(<<105, 99, 104, 32>>), Group(Alt(<<Lit(<<97, 114, 98, 101, 105, 116, 101>>), Lit(<<119, 111, 104, 110, 101>>), Lit(<<115, 116, 117, 100, 105, 101, 114, 101>>)>>)), Lit(<<32>>), Group(Alt(<<Lit(<<98, 101, 105>>), Lit(<<105, 110>>), Lit(<<102, 252, 114>>)>>)), WordBoundary>>), flags |-> {"i"}, category |-> "fact", lang |-> "de"],
  \* line 803: /\bich habe (ein|eine)\b/i
  [pattern |-> Concat(<<WordBoundary, Lit(<<105, 99, 104, 32, 104, 97, 98, 101, 32>>), Group(Alt(<<Lit(<<101, 105, 110>>), Lit(<<101, 105, 110, 101>>)>>)), WordBoundary>>), flags |-> {"i"}, category |-> "fact", lang |-> "de"],
  \* line 804: /\bich bin (ein|eine)?\b/i
  [pattern |-> Concat(<<WordBoundary, Lit(<<105, 99, 104, 32, 98, 105, 110, 32>>), Repeat(Group(Alt(<<Lit(<<101, 105, 110>>), Lit(<<101, 105, 110, 101>>)>>)), 0, 1), WordBoundary>>), flags |-> {"i"}, category |-> "fact", lang |-> "de"]
  >>

\* triggers.ts lines 810-875
IMPORTANCE_TRIGGERS ==
  <<
  \* line 812: /\b(very )?important\b/i
  [pattern |-> Concat(<<WordBoundary, Repeat(Group(Lit(<<118, 101, 114, 121, 32>>)), 0, 1), Lit(<<105, 109, 112, 111, 114, 116, 97, 110, 116>>), WordBoundary>>), flags |-> {"i"}, category |-> "importance", lang |-> "en"],
  \* line 813: /\balways\b/i
  [pattern |-> Concat(<<WordBoundary, Lit(<<97, 108, 119, 97, 121, 115>>), WordBoundary>>), flags |-> {"i"}, category |-> "importance", lang |-> "en"],
  \* line 814: /\bnever\b/i
  [pattern |-> Concat(<<WordBoundary, Lit(<<110, 101, 118, 101, 114>>), WordBoundary>>), flags |-> {"i"}, category |-> "importance", lang |-> "en"],
  \* line 815: /\bmust (remember|know)\b/i
  [pattern |-> Concat(<<WordBoundary, Lit(<<109, 117, 115, 116, 32>>), Group(Alt(<<Lit(<<114, 101, 109, 101, 109, 98, 101, 114>>), Lit(<<107, 110, 111, 119>>)>>)), WordBoundary>>), flags |-> {"i"}, category |-> "importance", lang |-> "en"],
  \* line 818: /\u0432\u0430\u0436\u043D\u043E/i
  [pattern |-> Lit(<<1074, 1072, 1078, 1085, 1086>>), flags |-> {"i"}, category |-> "importance", lang |-> "ru"],
  \* line 819: /\u0432\u0441\u0435\u0433\u0434\u0430/i
  [pattern |-> Lit(<<1074, 1089, 1077, 1075, 1076, 1072>>), flags |-> {"i"}, category |-> "importance", lang |-> "ru"],
  \* line 820: /\u043D\u0438\u043A\u043E\u0433\u0434\u0430/i
  [pattern |-> Lit(<<1085, 1080, 1082, 1086, 1075, 1076, 1072>>), flags |-> {"i"}, category |-> "importance", lang |-> "ru"],
  \* line 821: /\u043E\u0431\u044F\u0437\u0430\u0442\u0435\u043B\u044C\u043D\u043E/i
  [pattern |-> Lit(<<1086, 1073, 1103, 1079, 1072, 1090, 1077, 1083, 1100, 1085, 1086>>), flags |-> {"i"}, category |-> "importance", lang |-> "ru"],
  \* line 822: /\u043A\u0440\u0438\u0442\u0438\u0447\u043D\u043E/i
  [pattern |-> Lit(<<1082, 1088, 1080, 1090, 1080, 1095, 1085, 1086>>), flags |-> {"i"}, category |-> "importance", lang |-> "ru"],
  \* line 825: /\u0432\u0430\u0436\u043B\u0438\u0432\u043E/i
  [pattern |-> Lit(<<1074, 1072, 1078, 1083, 1080, 1074, 1086>>), flags |-> {"i"}, category |-> "importance", lang |-> "uk"],
  \* line 826: /\u0437\u0430\u0432\u0436\u0434\u0438/i
  [pattern |-> Lit(<<1079, 1072, 1074, 1078, 1076, 1080>>), flags |-> {"i"}, category |-> "importance", lang |-> "uk"],
  \* line 827: /\u043D\u0456\u043A\u043E\u043B\u0438/i
  [pattern |-> Lit(<<1085, 1110, 1082, 1086, 1083, 1080>>), flags |-> {"i"}, category |-> "importance", lang |-> "uk"],
  \* line 828: /\u043E\u0431\u043E\u0432['']?\u044F\u0437\u043A\u043E\u0432\u043E/i
  [pattern |-> Concat(<<Lit(<<1086, 1073, 1086, 1074>>), Repeat(Class({39}), 0, 1), Lit(<<1103, 1079, 1082, 1086, 1074, 1086>>)>>), flags |-> {"i"}, category |-> "importance", lang |-> "uk"],
  \* line 831: /\u0432\u0430\u0436\u043D\u0430/i
  [pattern |-> Lit(<<1074, 1072, 1078, 1085, 1072>>), flags |-> {"i"}, category |-> "importance", lang |-> "by"],
  \* line 832: /\u0437\u0430\u045E\u0441\u0451\u0434\u044B/i
  [pattern |-> Lit(<<1079, 1072, 1118, 1089, 1105, 1076, 1099>>), flags |-> {"i"}, category |-> "importance", lang |-> "by"],
  \* line 833: /\u043D\u0456\u043A\u043E\u043B\u0456/i
  [pattern |-> Lit(<<1085, 1110, 1082, 1086, 1083, 1110>>), flags |-> {"i"}, category |-> "importance", lang |-> "by"],
  \* line 836: /\u043C\u0430\u04A3\u044B\u0437\u0434\u044B/i
  [pattern |-> Lit(<<1084, 1072, 1187, 1099, 1079, 1076, 1099>>), flags |-> {"i"}, category |-> "importance", lang |-> "kk"],
  \* line 837: /\u04D9\u0440\u049B\u0430\u0448\u0430\u043D/i
  [pattern |-> Lit(<<1241, 1088, 1179, 1072, 1096, 1072, 1085>>), flags |-> {"i"}, category |-> "importance", lang |-> "kk"],
  \* line 838: /\u0435\u0448\u049B\u0430\u0448\u0430\u043D/i
  [pattern |-> Lit(<<1077, 1096, 1179, 1072, 1096, 1072, 1085>>), flags |-> {"i"}, category |-> "importance", lang |-> "kk"],
  \* line 839: /\u043C\u0456\u043D\u0434\u0435\u0442\u0442\u0456 \u0442\u04AF\u0440\u0434\u0435/i
  [pattern |-> Lit(<<1084, 1110, 1085, 1076, 1077, 1090, 1090, 1110, 32, 1090, 1199, 1088, 1076, 1077>>), flags |-> {"i"}, category |-> "importance", lang |-> "kk"],
  \* line 842: /\bd\u016Fle\u017Eit\u00E9\b/i
  [pattern |-> Concat(<<WordBoundary, Lit(<<100, 367, 108, 101, 382, 105, 116, 233>>), WordBoundary>>), flags |-> {"i"}, category |-> "importance", lang |-> "cz"],
  \* line 843: /\bv\u017Edy\b/i
  [pattern |-> Concat(<<WordBoundary, Lit(<<118, 382, 100, 121>>), WordBoundary>>), flags |-> {"i"}, category |-> "importance", lang |-> "cz"],
  \* line 844: /\bnikdy\b/i
  [pattern |-> Concat(<<WordBoundary, Lit(<<110, 105, 107, 100, 121>>), WordBoundary>>), flags |-> {"i"}, category |-> "importance", lang |-> "cz"],
  \* line 847: /\b(tr\u00E8s )?important\b/i
  [pattern |-> Concat(<<WordBoundary, Repeat(Group(Lit(<<116, 114, 232, 115, 32>>)), 0, 1), Lit(<<105, 109, 112, 111, 114, 116, 97, 110, 116>>), WordBoundary>>), flags |-> {"i"}, category |-> "importance", lang |-> "fr"],
  \* line 848: /\btoujours\b/i
  [pattern |-> Concat(<<WordBoundary, Lit(<<116, 111, 117, 106, 111, 117, 114, 115>>), WordBoundary>>), flags |-> {"i"}, category |-> "importance", lang |-> "fr"],
  \* line 849: /\bjamais\b/i
  [pattern |-> Concat(<<WordBoundary, Lit(<<106, 97, 109, 97, 105, 115>>), WordBoundary>>), flags |-> {"i"}, category |-> "importance", lang |-> "fr"],
  \* line 850: /\bcritique\b/i
  [pattern |-> Concat(<<WordBoundary, Lit(<<99, 114, 105, 116, 105, 113, 117, 101>>), WordBoundary>>), flags |-> {"i"}, category |-> "importance", lang |-> "fr"],
  \* line 853: /\b(muy )?importante\b/i
  [pattern |-> Concat(<<WordBoundary, Repeat(Group(Lit(<<109, 117, 121, 32>>)), 0, 1), Lit(<<105, 109, 112, 111, 114, 116, 97, 110, 116, 101>>), WordBoundary>>), flags |-> {"i"}, category |-> "importance", lang |-> "es"],
  \* line 854: /\bsiempre\b/i
  [pattern |-> Concat(<<WordBoundary, Lit(<<115, 105, 101, 109, 112, 114, 101>>), WordBoundary>>), flags |-> {"i"}, category |-> "importance", lang |-> "es"],
  \* line 855: /\bnunca\b/i
  [pattern |-> Concat(<<WordBoundary, Lit(<<110, 117, 110, 99, 97>>), WordBoundary>>), flags |-> {"i"}, category |-> "importance", lang |-> "es"],
  \* line 856: /\bcr\u00EDtico\b/i
  [pattern |-> Concat(<<WordBoundary, Lit(<<99, 114, 237, 116, 105, 99, 111>>), WordBoundary>>), flags |-> {"i"}, category |-> "importance", lang |-> "es"],
  \* line 859: /\b(molto )?importante\b/i
  [pattern |-> Concat(<<WordBoundary, Repeat(Group(Lit(<<109, 111, 108, 116, 111, 32>>)), 0, 1), Lit(<<105, 109, 112, 111, 114, 116, 97, 110, 116, 101>>), WordBoundary>>), flags |-> {"i"}, category |-> "importance", lang |-> "it"],
  \* line 860: /\bsempre\b/i
  [pattern |-> Concat(<<WordBoundary, Lit(<<115, 101, 109, 112, 114, 101>>), WordBoundary>>), flags |-> {"i"}, category |-> "importance", lang |-> "it"],
  \* line 861: /\bmai\b/i
  [pattern |-> Concat(<<WordBoundary, Lit(<<109, 97, 105>>), WordBoundary>>), flags |-> {"i"}, category |-> "importance", lang |-> "it"],
  \* line 862: /\bcritico\b/i
  [pattern |-> Concat(<<WordBoundary, Lit(<<99, 114, 105, 116, 105, 99, 111>>), WordBoundary>>), flags |-> {"i"}, category |-> "importance", lang |-> "it"],
  \* line 865: /\b(muito )?importante\b/i
  [pattern |-> Concat(<<WordBoundary, Repeat(Group(Lit(<<109, 117, 105, 116, 111, 32>>)), 0, 1), Lit(<<105, 109, 112, 111, 114, 116, 97, 110, 116, 101>>), WordBoundary>>), flags |-> {"i"}, category |-> "importance", lang |-> "pt"],
  \* line 866: /\bsempre\b/i
  [pattern |-> Concat(<<WordBoundary, Lit(<<115, 101, 109, 112, 114, 101>>), WordBoundary>>), flags |-> {"i"}, category |-> "importance", lang |-> "pt"],
  \* line 867: /\bnunca\b/i
  [pattern |-> Concat(<<WordBoundary, Lit(<<110, 117, 110, 99, 97>>), WordBoundary>>), flags |-> {"i"}, category |-> "importance", lang |-> "pt"],
  \* line 868: /\bcr\u00EDtico\b/i
  [pattern |-> Concat(<<WordBoundary, Lit(<<99, 114, 237, 116, 105, 99, 111>>), WordBoundary>>), flags |-> {"i"}, category |-> "importance", lang |-> "pt"],
  \* line 871: /\b(sehr )?wichtig\b/i
  [pattern |-> Concat(<<WordBoundary, Repeat(Group(Lit(<<115, 101, 104, 114, 32>>)), 0, 1), Lit(<<119, 105, 99, 104, 116, 105, 103>>), WordBoundary>>), flags |-> {"i"}, category |-> "importance", lang |-> "de"],
  \* line 872: /\bimmer\b/i
  [pattern |-> Concat(<<WordBoundary, Lit(<<105, 109, 109, 101, 114>>), WordBoundary>>), flags |-> {"i"}, category |-> "importance", lang |-> "de"],
  \* line 873: /\bnie(mals)?\b/i
  [pattern |-> Concat(<<WordBoundary, Lit(<<110, 105, 101>>), Repeat(Group(Lit(<<109, 97, 108, 115>>)), 0, 1), WordBoundary>>), flags |-> {"i"}, category |-> "importance", lang |-> "de"],
  \* line 874: /\bkritisch\b/i
  [pattern |-> Concat(<<WordBoundary, Lit(<<107, 114, 105, 116, 105, 115, 99, 104>>), WordBoundary>>), flags |-> {"i"}, category |-> "importance", lang |-> "de"]
  >>

\* export const ALL_TRIGGERS, in declaration order.
ALL_TRIGGERS ==
  REMEMBER_TRIGGERS \o PREFERENCE_TRIGGERS \o DECISION_TRIGGERS
    \o IDENTITY_TRIGGERS \o FACT_TRIGGERS \o IMPORTANCE_TRIGGERS

\* export const SUPPORTED_LANGUAGES
SUPPORTED_LANGUAGES ==
  <<"en", "uk", "ru", "by", "kk", "cz", "fr", "es", "it", "pt", "de">>

(***************************************************************************)
(* A LanguageFilter value ("auto" | LanguageCode | LanguageCode[]) is a    *)
(* record: [kind |-> "auto"], [kind |-> "code", code |-> c] or             *)
(* [kind |-> "array", codes |-> <<c1, ...>>].                              *)
(***************************************************************************)
Auto == [kind |-> "auto"]
Code(c) == [kind |-> "code", code |-> c]
Array(cs) == [kind |-> "array", codes |-> cs]

\* The value null.
Null == [null |-> TRUE]

\* A rule is referred to by its index in ALL_TRIGGERS.  lastIndex maps the
\* rules whose RegExp object holds a lastIndex other than 0 to that value: a
\* set of pairs <<rule, lastIndex>>.
LastIndexOf(lastIndex, i) ==
  IF \E p \in lastIndex : p[1] = i THEN (CHOOSE p \in lastIndex : p[1] = i)[2] ELSE 0

\* PatternTest for rules written with the g flag: the test starts at the
\* lastIndex the test before left.
PatternTestGlobal(trigger, li, text) ==
  RegExpExec(trigger.pattern, trigger.flags \cup {"g"}, li, text)

\* trigger.pattern.test(text): the result of the test and the lastIndex the
\* rule's RegExp object is left with.
PatternTest(trigger, li, text) == RegExpExec(trigger.pattern, trigger.flags, li, text)

\* getFilteredTriggers that returns the whole catalogue for every filter.
getFilteredTriggersAll(all, languages) == [i \in 1..Len(all) |-> i] \o <<>>

\* getFilteredTriggers without "langSet.add("common")".
getFilteredTriggersNoCommon(all, languages) ==
  IF languages.kind = "auto" THEN [i \in 1..Len(all) |-> i] \o <<>>
  ELSE LET langSet ==
             IF languages.kind = "array"
             THEN {languages.codes[k] : k \in 1..Len(languages.codes)}
             ELSE {languages.code}
           keep(i) == all[i].lang \in langSet
       IN  SelectSeq([i \in 1..Len(all) |-> i], keep)

\* function getFilteredTriggers(languages): the filtered rules, as indices
\* of ALL_TRIGGERS in catalogue order.
getFilteredTriggers(all, languages) ==
  IF languages.kind = "auto" THEN [i \in 1..Len(all) |-> i] \o <<>>
  ELSE LET langSet ==
             (IF languages.kind = "array"
              THEN {languages.codes[k] : k \in 1..Len(languages.codes)}
              ELSE {languages.code}) \cup {"common"}
           keep(i) == all[i].lang \in langSet
       IN  SelectSeq([i \in 1..Len(all) |-> i], keep)

\* WeightOf that gives every rule the weight 2.
WeightOfTwo(trigger) == 2

\* trigger.weight ?? 1
WeightOf(trigger) == IF "weight" \in DOMAIN trigger THEN trigger.weight ELSE 1

\* UpdateBest without the comparison: the last rule that fires wins.
UpdateBestLast(bestMatch, trigger) ==
  [category |-> trigger.category, weight |-> WeightOf(trigger), lang |-> trigger.lang]

\* UpdateBest with >= in place of > : a later rule of equal weight takes over.
UpdateBestNonStrict(bestMatch, trigger) ==
  LET weight == WeightOf(trigger)
  IN  IF bestMatch = Null \/ weight >= bestMatch.weight
      THEN [category |-> trigger.category, weight |-> weight, lang |-> trigger.lang]
      ELSE bestMatch

\* UpdateBest with < in place of > : the lowest weight wins.
UpdateBestLowest(bestMatch, trigger) ==
  LET weight == WeightOf(trigger)
  IN  IF bestMatch = Null \/ weight < bestMatch.weight
      THEN [category |-> trigger.category, weight |-> weight, lang |-> trigger.lang]
      ELSE bestMatch

\* One iteration of the loop of matchTrigger on a rule whose test succeeded.
UpdateBest(bestMatch, trigger) ==
  LET weight == WeightOf(trigger)
  IN  IF bestMatch = Null \/ weight > bestMatch.weight
      THEN [category |-> trigger.category, weight |-> weight, lang |-> trigger.lang]
      ELSE bestMatch

\* The loop of matchTrigger over the rules whose test succeeded, in order.
RECURSIVE BestOf(_, _, _, _)

\* BestOf that ends with a default match in place of null.
BestOfDefault(all, fired, k, bestMatch) ==
  IF k > Len(fired)
  THEN (IF bestMatch = Null THEN [category |-> "fact", weight |-> 1, lang |-> "common"]
        ELSE bestMatch)
  ELSE Only({BestOf(all, fired, k + 1, b) : b \in {UpdateBest(bestMatch, all[fired[k]])}})

\* for (const trigger of triggers) { if (trigger.pattern.test(text)) ... }
BestOf(all, fired, k, bestMatch) ==
  IF k > Len(fired) THEN bestMatch
  ELSE Only({BestOf(all, fired, k + 1, b) : b \in {UpdateBest(bestMatch, all[fired[k]])}})

\* What the tests of a loop over the filtered list leave, res[k] being the
\* outcome of the k-th test: the rules whose test was true, in order, and
\* the lastIndex map.
Collect(triggers, res, lastIndex) ==
  LET found(k) == res[k].found
      moved(k) == res[k].lastIndex # 0
      untested(p) == \A k \in 1..Len(triggers) : triggers[k] # p[1]
  IN  Only({[fired |-> [j \in 1..Len(hits) |-> triggers[hits[j]]] \o <<>>,
             lastIndex |-> {p \in lastIndex : untested(p)}
                             \cup {<<triggers[k], res[k].lastIndex>> :
                                   k \in {j \in 1..Len(triggers) : moved(j)}}]
            : hits \in {SelectSeq([k \in 1..Len(triggers) |-> k], found)}})

\* The tests "trigger.pattern.test(text)" of a loop over the filtered list.
RunTests(all, triggers, lastIndex, text) ==
  Only({Collect(triggers, res, lastIndex) :
        res \in {[k \in 1..Len(triggers) |->
                    PatternTest(all[triggers[k]], LastIndexOf(lastIndex, triggers[k]), text)]
                   \o <<>>}})

\* matchTrigger with the catalogue at hand.
matchTriggerIn(all, text, languages, lastIndex) ==
  Only({[result |-> BestOf(all, run.fired, 1, Null), lastIndex |-> run.lastIndex] :
        run \in {Only({RunTests(all, triggers, lastIndex, text) :
                        triggers \in {getFilteredTriggers(all, languages)}})}})

\* export function matchTrigger(text, languages = "auto"): the best match
\* (or Null) and the lastIndex map the call leaves.
matchTrigger(text, languages, lastIndex) ==
  Only({matchTriggerIn(all, text, languages, lastIndex) : all \in {ALL_TRIGGERS}})

\* getAllMatches that stops at the first matching rule.
getAllMatchesFirst(text, languages, lastIndex) ==
  Only({Only({Only({[result |-> IF run.fired = <<>> THEN <<>> ELSE <<run.fired[1]>>,
                     lastIndex |-> run.lastIndex] :
                    run \in {RunTests(all, triggers, lastIndex, text)}}) :
              triggers \in {getFilteredTriggers(all, languages)}}) :
        all \in {ALL_TRIGGERS}})

\* export function getAllMatches(text, languages = "auto"): the matching
\* rules, in order, and the lastIndex map the call leaves.
getAllMatches(text, languages, lastIndex) ==
  Only({Only({Only({[result |-> run.fired, lastIndex |-> run.lastIndex] :
                    run \in {RunTests(all, triggers, lastIndex, text)}}) :
              triggers \in {getFilteredTriggers(all, languages)}}) :
        all \in {ALL_TRIGGERS}})

(***************************************************************************)
(* message-utils : stripping of message metadata                           *)
(* String.prototype.replace with a regex takes the match the backtracking  *)
(* matcher finds first.  In the four regexes below every quantifier but    *)
(* the last is followed by a unit it cannot itself match, so that match is *)
(* the longest one from its start when the last quantifier is greedy       *)
(* (MaxOf of Ends) and the shortest one when it is lazy (MinOf of Ends).   *)
(***************************************************************************)

MinOf(S) == CHOOSE x \in S : \A y \in S : x <= y

MaxOf(S) == CHOOSE x \in S : \A y \in S : x >= y

\* [\s\S] : every unit
AnyUnit == NotClass({})

\* /^\[[^\]]+\]\s*/ without the anchor
EnvelopeHeaderRe ==
  Concat(<<Lit(<<91>>), Repeat(NotClass({93}), 1, Unbounded), Lit(<<93>>),
           Repeat(Class(WhiteSpace), 0, Unbounded)>>)

\* /^[^:\n]{1,50}:\s*/ without the anchor
SenderPrefixRe ==
  Concat(<<Repeat(NotClass({58, 10}), 1, 50), Lit(<<58>>),
           Repeat(Class(WhiteSpace), 0, Unbounded)>>)

\* /<relevant-memories>[\s\S]*?<\/relevant-memories>/g
MemoryTagsRe ==
  Concat(<<Lit(<<60, 114, 101, 108, 101, 118, 97, 110, 116, 45, 109, 101, 109, 111, 114, 105, 101, 115, 62>>),
           Repeat(AnyUnit, 0, Unbounded),
           Lit(<<60, 47, 114, 101, 108, 101, 118, 97, 110, 116, 45, 109, 101, 109, 111, 114, 105, 101, 115, 62>>)>>)

\* /\n?\[message_id:\s*\d+\]\s*$/ without the anchor
MessageIdSuffixRe ==
  Concat(<<Repeat(Lit(<<10>>), 0, 1),
           Lit(<<91, 109, 101, 115, 115, 97, 103, 101, 95, 105, 100, 58>>),
           Repeat(Class(WhiteSpace), 0, Unbounded), Repeat(Class(Digits), 1, Unbounded),
           Lit(<<93>>), Repeat(Class(WhiteSpace), 0, Unbounded)>>)

\* String.prototype.trim
trim(text) ==
  Only({IF keep = {} THEN <<>> ELSE SubSeq(text, MinOf(keep), MaxOf(keep)) :
        keep \in {{p \in 1..Len(text) : text[p] \notin WhiteSpace}}})

\* text.replace(re, "") for a regex that begins with ^ : the match, if any,
\* starts at the first unit.
RemoveAtStart(re, text) ==
  Only({IF ends = {} THEN text ELSE SubSeq(text, MaxOf(ends), Len(text)) :
        ends \in {Ends(re, FALSE, text, {1})}})

\* export function stripEnvelopeHeader(text)
stripEnvelopeHeader(text) == RemoveAtStart(EnvelopeHeaderRe, text)

\* export function stripSenderPrefix(text)
stripSenderPrefix(text) == RemoveAtStart(SenderPrefixRe, text)

\* The global replace of stripMemoryTags from position from on: the leftmost
\* opening tag that has a closing tag behind it is removed up to the first
\* such closing tag, and the search goes on behind it.
RECURSIVE RemoveMemoryTags(_, _)
RemoveMemoryTags(text, from) ==
  Only({IF starts = {} THEN SubSeq(text, from, Len(text))
        ELSE Only({SubSeq(text, from, MinOf(starts) - 1) \o RemoveMemoryTags(text, e) :
                   e \in {MinOf(Ends(MemoryTagsRe, FALSE, text, {MinOf(starts)}))}}) :
        starts \in {{p \in from..Len(text) : Ends(MemoryTagsRe, FALSE, text, {p}) # {}}}})

\* export function stripMemoryTags(text)
stripMemoryTags(text) == RemoveMemoryTags(text, 1)

\* export function stripMessageIdSuffix(text): the leftmost match that ends
\* at the end of the text is removed.
stripMessageIdSuffix(text) ==
  Only({IF starts = {} THEN text ELSE SubSeq(text, 1, MinOf(starts) - 1) :
        starts \in {{p \in 1..Len(text) :
                       Len(text) + 1 \in Ends(MessageIdSuffixRe, FALSE, text, {p})}}})

\* export function stripMessageMetadata(text)
stripMessageMetadata(text) ==
  Only({Only({Only({Only({trim(clean4) :
    clean4 \in {stripMessageIdSuffix(clean3)}}) :
    clean3 \in {Only({trim(c) : c \in {stripSenderPrefix(clean2)}})}}) :
    clean2 \in {Only({trim(c) : c \in {stripEnvelopeHeader(clean1)}})}}) :
    clean1 \in {Only({trim(c) : c \in {stripMemoryTags(text)}})}})

(***************************************************************************)
(* index.ts : the capture gate                                             *)
(***************************************************************************)

\* String.prototype.startsWith
startsWith(text, prefix) ==
  /\ Len(prefix) <= Len(text)
  /\ \A k \in 1..Len(prefix) : text[k] = prefix[k]

\* includes that looks at the start of the text only.
includesAtStart(text, part) ==
  /\ Len(part) <= Len(text)
  /\ \A k \in 1..Len(part) : text[k] = part[k]

\* String.prototype.includes
includes(text, part) ==
  \E p \in 1..(Len(text) - Len(part) + 1) : \A k \in 1..Len(part) : text[p + k - 1] = part[k]

\* The code point of the surrogate pair <<hi, lo>>.
CodePoint(hi, lo) == (hi - 55296) * 1024 + (lo - 56320) + 65536

\* emojiCount that counts the UTF-16 units of the emoji, two for each.
emojiCountUnits(text) ==
  Cardinality({p \in 1..Len(text) :
                 \/ /\ text[p] \in 55296..56319
                    /\ p < Len(text)
                    /\ text[p + 1] \in 56320..57343
                    /\ CodePoint(text[p], text[p + 1]) \in 127744..129535
                 \/ /\ text[p] \in 56320..57343
                    /\ p > 1
                    /\ text[p - 1] \in 55296..56319
                    /\ CodePoint(text[p - 1], text[p]) \in 127744..129535})

\* (text.match(/[\u{1F300}-\u{1F9FF}]/gu) || []).length : with the u flag
\* the text is read by code points, and a code point above U+FFFF is a high
\* surrogate followed by a low surrogate.
emojiCount(text) ==
  Cardinality({p \in 1..(Len(text) - 1) :
                 /\ text[p] \in 55296..56319
                 /\ text[p + 1] \in 56320..57343
                 /\ CodePoint(text[p], text[p + 1]) \in 127744..129535})

\* The checks of shouldCapture on the cleaned text.
captureChecks(cleanText, language, lastIndex) ==
  IF Len(cleanText) < 10 THEN [result |-> FALSE, lastIndex |-> lastIndex]
  ELSE IF Len(cleanText) > 500 THEN [result |-> FALSE, lastIndex |-> lastIndex]
  ELSE IF startsWith(cleanText, <<60>>) /\ includes(cleanText, <<60, 47>>)
       THEN [result |-> FALSE, lastIndex |-> lastIndex]
  ELSE IF includes(cleanText, <<42, 42>>) /\ includes(cleanText, <<10, 45>>)
       THEN [result |-> FALSE, lastIndex |-> lastIndex]
  ELSE IF emojiCount(cleanText) > 3 THEN [result |-> FALSE, lastIndex |-> lastIndex]
  ELSE Only({[result |-> match.result # Null, lastIndex |-> match.lastIndex] :
             match \in {matchTrigger(cleanText, language, lastIndex)}})

\* createShouldCapture(language)(text): the decision and the lastIndex map
\* the call leaves.
shouldCapture(text, language, lastIndex) ==
  Only({captureChecks(cleanText, language, lastIndex) :
        cleanText \in {stripMessageMetadata(text)}})

(***************************************************************************)
(* The plugin: category mapping, configuration, tools and lifecycle hooks  *)
(***************************************************************************)

\* export const MEMORY_CATEGORIES
MEMORY_CATEGORIES == <<"preference", "fact", "decision", "entity", "other">>

\* TRIGGER_TO_CATEGORY with identity left as it is.
TRIGGER_TO_CATEGORY_Unmapped ==
  [remember |-> "other", preference |-> "preference", decision |-> "decision",
   identity |-> "identity", fact |-> "fact", importance |-> "other"]

\* const TRIGGER_TO_CATEGORY
TRIGGER_TO_CATEGORY ==
  [remember |-> "other", preference |-> "preference", decision |-> "decision",
   identity |-> "entity", fact |-> "fact", importance |-> "other"]

\* createDetectCategory(language)(text): the storage category and the
\* lastIndex map the call leaves.
detectCategory(text, language, lastIndex) ==
  Only({[result |-> IF match.result # Null THEN TRIGGER_TO_CATEGORY[match.result.category]
                    ELSE "other",
         lastIndex |-> match.lastIndex] :
        match \in {matchTrigger(text, language, lastIndex)}})

\* Values of type unknown: undefined, null (Null), strings, numbers, arrays.
Undefined == [type |-> "undefined"]
Str(s) == [type |-> "string", value |-> s]
Num(n) == [type |-> "number", value |-> n]
Arr(items) == [type |-> "array", items |-> items]

\* typeof v === "string"
IsString(v) == v # Null /\ v.type = "string"

\* Array.isArray(v)
IsArray(v) == v # Null /\ v.type = "array"

\* const VALID_LANGUAGES
VALID_LANGUAGES == <<"en", "uk", "ru", "by", "kk", "cz", "fr", "es", "it", "pt", "de">>

\* typeof v === "string" && VALID_LANGUAGES.includes(v)
IsValidLanguage(v) ==
  IsString(v) /\ \E k \in 1..Len(VALID_LANGUAGES) : VALID_LANGUAGES[k] = v.value

\* parseLanguage that returns the filtered array even when it is empty.
parseLanguageNoFallback(value) ==
  IF value = Undefined \/ value = Str("auto") THEN Auto
  ELSE IF IsValidLanguage(value) THEN Code(value.value)
  ELSE IF IsArray(value)
       THEN Only({Array([k \in 1..Len(valid) |-> valid[k].value]) :
                  valid \in {SelectSeq(value.items, IsValidLanguage)}})
  ELSE Auto

\* function parseLanguage(value: unknown)
parseLanguage(value) ==
  IF value = Undefined \/ value = Str("auto") THEN Auto
  ELSE IF IsValidLanguage(value) THEN Code(value.value)
  ELSE IF IsArray(value)
       THEN Only({IF Len(valid) > 0 THEN Array([k \in 1..Len(valid) |-> valid[k].value])
                  ELSE Auto :
                  valid \in {SelectSeq(value.items, IsValidLanguage)}})
  ELSE Auto

\* A message of event.messages, and a block of a message's content array.
\* A message that is no object is Null or a number.
Msg(role, content) == [type |-> "message", role |-> role, content |-> content]
Block(kind, txt) == [type |-> "block", kind |-> kind, text |-> txt]

\* msg && typeof msg === "object"
IsMessage(m) == m # Null /\ m.type = "message"

\* block && typeof block === "object" && "type" in block &&
\* block.type === "text" && "text" in block && typeof block.text === "string"
IsTextBlock(b) == b # Null /\ b.type = "block" /\ b.kind = "text" /\ IsString(b.text)

\* for (const block of content) { if (...) texts.push(block.text) }
RECURSIVE BlockTexts(_)
BlockTexts(blocks) ==
  IF blocks = <<>> THEN <<>>
  ELSE (IF IsTextBlock(Head(blocks)) THEN <<Head(blocks).text.value>> ELSE <<>>)
       \o BlockTexts(Tail(blocks))

\* MessageTexts without the test of the role.
MessageTextsAnyRole(msg) ==
  IF ~IsMessage(msg) THEN <<>>
  ELSE IF IsString(msg.content) THEN <<msg.content.value>>
  ELSE IF IsArray(msg.content) THEN BlockTexts(msg.content.items)
  ELSE <<>>

\* The texts one message of agent_end's extraction loop pushes.
MessageTexts(msg) ==
  IF ~IsMessage(msg) THEN <<>>
  ELSE IF msg.role # "user" /\ msg.role # "assistant" THEN <<>>
  ELSE IF IsString(msg.content) THEN <<msg.content.value>>
  ELSE IF IsArray(msg.content) THEN BlockTexts(msg.content.items)
  ELSE <<>>

\* for (const msg of event.messages) { ... }: the texts extracted, in order.
RECURSIVE ExtractTexts(_)
ExtractTexts(messages) ==
  IF messages = <<>> THEN <<>>
  ELSE MessageTexts(Head(messages)) \o ExtractTexts(Tail(messages))

\* FilterCapturable without the gate.
FilterCapturableAll(texts, k, language, lastIndex, kept) ==
  [result |-> texts, lastIndex |-> lastIndex]

\* texts.filter((text) => text && shouldCapture(text)): the texts kept, in
\* order, and the lastIndex map the calls leave.
RECURSIVE FilterCapturable(_, _, _, _, _)
FilterCapturable(texts, k, language, lastIndex, kept) ==
  IF k > Len(texts) THEN [result |-> kept, lastIndex |-> lastIndex]
  ELSE IF texts[k] = <<>> THEN FilterCapturable(texts, k + 1, language, lastIndex, kept)
  ELSE Only({FilterCapturable(texts, k + 1, language, r.lastIndex,
                              IF r.result THEN Append(kept, texts[k]) ELSE kept) :
             r \in {shouldCapture(texts[k], language, lastIndex)}})

\* SliceThree without the limit.
SliceAll(toCapture) == toCapture

\* toCapture.slice(0, 3)
SliceThree(toCapture) == SubSeq(toCapture, 1, IF Len(toCapture) < 3 THEN Len(toCapture) ELSE 3)

\* embeddings.embed(text), when it succeeds: the vector stands for the text
\* it was made from; how near two vectors are is left to the search.
Embed(txt) == [of |-> txt]

\* The similarity scores a search can give a row, in hundredths.
ScoreLevels == {30, 70, 90, 95, 100}

\* The subsequences of 1..n with at most limit members, as sets of indices.
IndexSets(n, limit) == {S \in SUBSET (1..n) : Cardinality(S) <= limit}

\* db.search(vector, limit, minScore), when it succeeds: at most limit rows
\* of the table, each with a score of at least minScore.  Which rows the
\* vector search finds near, and how near, is the database's matter: every
\* outcome is possible.  The rows come in table order and carry one score
\* level.
SearchOutcomes(rows, limit, minScore) ==
  {[j \in 1..Cardinality(S) |->
      [entry |-> rows[CHOOSE i \in S : Cardinality({h \in S : h < i}) = j - 1],
       score |-> sc]] \o <<>> :
   S \in IndexSets(Len(rows), limit), sc \in {s \in ScoreLevels : s >= minScore}}

\* db.search(vector, limit, minScore) of a database that finds what is
\* there: when the table holds a row of the very vector searched for, the
\* results hold such a row, with a score of at least 0.95.
ExactSearchOutcomes(rows, vector, limit, minScore) ==
  {res \in SearchOutcomes(rows, limit, minScore) :
     (\E i \in 1..Len(rows) : rows[i].vector = vector) =>
       \E j \in 1..Len(res) : res[j].entry.vector = vector /\ res[j].score >= 95}

\* The ids of the rows: the placeholder's, and those randomUUID() makes, each
\* its own (the n-th of call t).
SchemaId == [name |-> "__schema__"]
Uuid(t, n) == [uuid |-> <<t, n>>]

\* The ids as the strings they are: "__schema__", and for the n-th id of
\* call t the lowercase UUID "0000000t-0000-4000-a000-00000000000n".
Zeros(k) == [i \in 1..k |-> 48]
UuidString(t, n) ==
  Zeros(7) \o <<48 + t, 45>> \o Zeros(4) \o <<45, 52, 48, 48, 48, 45, 97, 48, 48, 48, 45>>
           \o Zeros(11) \o <<48 + n>>
IdString(id) ==
  IF id = SchemaId THEN <<95, 95, 115, 99, 104, 101, 109, 97, 95, 95>>
  ELSE UuidString(id.uuid[1], id.uuid[2])

\* [0-9a-f] under the i flag
IsHexUnit(u) == (u >= 48 /\ u <= 57) \/ (u >= 97 /\ u <= 102) \/ (u >= 65 /\ u <= 70)

\* uuidRegex.test(id) that looks at the length alone.
uuidRegexTestLength(id) == Len(id) = 36

\* uuidRegex.test(id), uuidRegex being
\* /^[0-9a-f]{8}-[0-9a-f]{4}-[0-9a-f]{4}-[0-9a-f]{4}-[0-9a-f]{12}$/i
uuidRegexTest(id) ==
  /\ Len(id) = 36
  /\ \A k \in 1..36 : IF k \in {9, 14, 19, 24} THEN id[k] = 45 ELSE IsHexUnit(id[k])

\* The placeholder row createTable is given.
SchemaRow ==
  [id |-> SchemaId, text |-> <<>>, vector |-> [zeros |-> TRUE], importance |-> 0,
   category |-> "other"]

\* new MemoryDB(...): no table handle, no initialization begun.  exists and
\* rows are the table in the database directory: whether it is there, and
\* its rows.  init is the await doInitialize stands at.
MemoryDB(exists, rows) ==
  [table |-> FALSE, initPromise |-> "null", init |-> "none", inits |-> 0,
   exists |-> exists, rows |-> rows]

\* ensureInitialized that does not keep the promise: a call that finds no
\* table handle begins the initialization anew.
ensureInitializedNoPromise(db) ==
  IF db.table THEN [db |-> db, ready |-> TRUE]
  ELSE [db |-> [db EXCEPT !.initPromise = "pending", !.init = "connect", !.inits = @ + 1],
        ready |-> FALSE]

\* ensureInitialized(), up to its return: the instance afterwards and whether
\* the table handle is there (else the caller awaits initPromise).  inits
\* counts the calls of doInitialize.
ensureInitialized(db) ==
  IF db.table THEN [db |-> db, ready |-> TRUE]
  ELSE IF db.initPromise # "null" THEN [db |-> db, ready |-> FALSE]
  ELSE [db |-> [db EXCEPT !.initPromise = "pending", !.init = "connect", !.inits = @ + 1],
        ready |-> FALSE]

\* doInitialize(): the await it stands at settles, with success or not.
doInitialize(db, ok) ==
  IF ~ok THEN [db EXCEPT !.init = "failed", !.initPromise = "rejected"]
  ELSE CASE db.init = "connect" -> [db EXCEPT !.init = "tableNames"]
         [] db.init = "tableNames" ->
              [db EXCEPT !.init = IF db.exists THEN "openTable" ELSE "createTable"]
         [] db.init = "openTable" ->
              [db EXCEPT !.table = TRUE, !.init = "done", !.initPromise = "fulfilled"]
         [] db.init = "createTable" ->
              [db EXCEPT !.table = TRUE, !.exists = TRUE, !.rows = Append(db.rows, SchemaRow),
                         !.init = "delete"]
         [] db.init = "delete" ->
              [db EXCEPT !.rows = SelectSeq(db.rows, LAMBDA r : r.id # SchemaId),
                         !.init = "done", !.initPromise = "fulfilled"]

\* A call of a handler or tool: what it was called with, the await it stands
\* at (pc), its local variables, what it has called so far, and how it ended.
Task(op, input) ==
  [op |-> op, input |-> input, pc |-> "start", dbop |-> "none",
   toCapture |-> <<>>, candidates |-> <<>>, k |-> 0, text |-> <<>>, vector |-> Null,
   category |-> "other", importance |-> 70, id |-> <<>>,
   stored |-> 0, embeds |-> 0, searches |-> 0, stores |-> 0, deletes |-> 0, added |-> <<>>,
   results |-> <<>>, failed |-> "none",
   warned |-> FALSE, outcome |-> "pending", result |-> Undefined]

\* The call returns.
Finish(task, result) == [task EXCEPT !.pc = "done", !.outcome = "returned", !.result = result]

\* await embeddings.embed(txt): the call is made.
CallEmbed(task, txt) == [task EXCEPT !.pc = "embed", !.text = txt, !.embeds = @ + 1]

\* The method of MemoryDB goes on behind await this.ensureInitialized(), up
\* to its await of the table: delete throws on an id that is no UUID.
afterInit(task) ==
  IF task.dbop = "delete" /\ ~uuidRegexTest(task.id)
  THEN [task EXCEPT !.pc = "done", !.failed = "invalid_id", !.outcome = "threw"]
  ELSE [task EXCEPT !.pc = task.dbop]

\* await db.search(...) / await db.store(...) / await db.delete(...) / ...:
\* the call is made and runs up to its first await that is pending.
CallDb(task, db, dbop) ==
  Only({[task |-> IF e.ready THEN afterInit(called) ELSE [called EXCEPT !.pc = "init"],
         db |-> e.db] :
        e \in {ensureInitialized(db)},
        called \in {[task EXCEPT !.dbop = dbop,
                                 !.searches = IF dbop = "search" THEN @ + 1 ELSE @,
                                 !.stores = IF dbop = "add" THEN @ + 1 ELSE @,
                                 !.deletes = IF dbop = "delete" THEN @ + 1 ELSE @]}})

\* for (const rawText of toCapture.slice(0, 3)) { ... }: the loop of
\* agent_end from candidate k on, up to its next await or its end.
RECURSIVE NextCandidate(_, _, _, _)
NextCandidate(task, k, language, lastIndex) ==
  IF k > Len(task.candidates)
  THEN [task |-> Finish([task EXCEPT !.k = k], Undefined), lastIndex |-> lastIndex]
  ELSE Only({IF txt = <<>> \/ Len(txt) < 10
             THEN NextCandidate(task, k + 1, language, lastIndex)
             ELSE Only({[task |-> CallEmbed([task EXCEPT !.k = k, !.category = c.result], txt),
                         lastIndex |-> c.lastIndex] :
                        c \in {detectCategory(txt, language, lastIndex)}}) :
             txt \in {stripMessageMetadata(task.candidates[k])}})

\* Throw without the catch of the hooks: every call rejects.
ThrowUncaught(task, what) == [task EXCEPT !.pc = "done", !.failed = what, !.outcome = "threw"]

\* Throw with the catch inside the loop: agent_end goes on with its next
\* candidate.
ThrowSkipsCandidate(task, what) ==
  IF task.op = "agent_end"
  THEN NextCandidate([task EXCEPT !.failed = what, !.warned = TRUE], task.k + 1,
                     Code("ru"), {}).task
  ELSE [task EXCEPT !.pc = "done", !.failed = what, !.outcome = "threw"]

\* The await what of the call rejects: the hooks catch it and log a warning
\* (catch (err) { api.logger.warn(...) }), the tools and the methods of
\* MemoryDB have no catch.
Throw(task, what) ==
  IF task.op \in {"agent_end", "before_agent_start"}
  THEN [task EXCEPT !.pc = "done", !.failed = what, !.outcome = "returned", !.warned = TRUE]
  ELSE [task EXCEPT !.pc = "done", !.failed = what, !.outcome = "threw"]

\* api.on("agent_end", async (event) => ...), up to its first await or its
\* return.
agentEnd(event, language, lastIndex) ==
  IF ~event.success \/ event.messages = Undefined \/ event.messages.items = <<>>
  THEN [task |-> Finish(Task("agent_end", event), Undefined), lastIndex |-> lastIndex]
  ELSE Only({IF toCapture.result = <<>>
             THEN [task |-> Finish(Task("agent_end", event), Undefined),
                   lastIndex |-> toCapture.lastIndex]
             ELSE NextCandidate([Task("agent_end", event) EXCEPT
                                   !.toCapture = toCapture.result,
                                   !.candidates = SliceThree(toCapture.result)],
                                1, language, toCapture.lastIndex) :
             toCapture \in {Only({FilterCapturable(texts, 1, language, lastIndex, <<>>) :
                                  texts \in {ExtractTexts(event.messages.items)}})}})

\* api.on("before_agent_start", async (event) => ...), up to its first await
\* or its return.
beforeAgentStart(event) ==
  IF event.prompt = Undefined \/ event.prompt.value = <<>> \/ Len(event.prompt.value) < 5
  THEN Finish(Task("before_agent_start", event), Undefined)
  ELSE CallEmbed(Task("before_agent_start", event), event.prompt.value)

\* memoryStore with other defaults.
memoryStoreOtherDefaults(params) ==
  CallEmbed([Task("memory_store", params) EXCEPT
               !.importance = IF params.importance = Undefined THEN 50
                              ELSE params.importance.value,
               !.category = IF params.category = Undefined THEN "fact"
                            ELSE params.category.value],
            params.text.value)

\* memory_store.execute(_toolCallId, params), up to its first await.
memoryStore(params) ==
  CallEmbed([Task("memory_store", params) EXCEPT
               !.importance = IF params.importance = Undefined THEN 70
                              ELSE params.importance.value,
               !.category = IF params.category = Undefined THEN "other"
                            ELSE params.category.value],
            params.text.value)

\* The search of each caller: db.search(vector, 3, 0.3) in
\* before_agent_start, db.search(vector, 1, 0.95) in agent_end and
\* memory_store.
\* memory_forget searches with (vector, 5, 0.7); a direct call of
\* MemoryDB.search is made with its defaults, limit = 5 and minScore = 0.5.
SearchLimit(op) ==
  IF op = "before_agent_start" THEN 3
  ELSE IF op \in {"memory_forget", "search"} THEN 5 ELSE 1
SearchMinScore(op) ==
  IF op = "before_agent_start" THEN 30
  ELSE IF op = "memory_forget" THEN 70
  ELSE IF op = "search" THEN 50 ELSE 95

\* The entry db.store() adds for the n-th store of call t.
FullEntry(task, t) ==
  [id |-> Uuid(t, task.stores), text |-> task.text, vector |-> task.vector,
   importance |-> task.importance, category |-> task.category]

\* What the caller does with the results of its search.
afterResults(task, db, results, language, lastIndex) ==
  IF task.op = "search"
  THEN [task |-> Finish(task, results), db |-> db, lastIndex |-> lastIndex]
  ELSE IF task.op = "memory_forget"
  THEN (IF results = <<>>
        THEN [task |-> Finish(task, [found |-> 0]), db |-> db, lastIndex |-> lastIndex]
        ELSE IF Len(results) = 1 /\ results[1].score > 90
        THEN Only({[task |-> c.task, db |-> c.db, lastIndex |-> lastIndex] :
                   c \in {CallDb([task EXCEPT !.id = IdString(results[1].entry.id)],
                                 db, "delete")}})
        ELSE [task |-> Finish(task, [action |-> "candidates",
                                     candidates |->
                                       [j \in 1..Len(results) |->
                                          [id |-> results[j].entry.id,
                                           text |-> results[j].entry.text,
                                           category |-> results[j].entry.category,
                                           score |-> results[j].score]] \o <<>>]),
              db |-> db, lastIndex |-> lastIndex])
  ELSE IF task.op = "before_agent_start"
  THEN [task |-> IF results = <<>> THEN Finish(task, Undefined)
                 ELSE Finish(task, [prependContext |->
                                      [j \in 1..Len(results) |->
                                         [category |-> results[j].entry.category,
                                          text |-> results[j].entry.text]] \o <<>>]),
        db |-> db, lastIndex |-> lastIndex]
  ELSE IF results # <<>>
  THEN (IF task.op = "memory_store"
        THEN [task |-> Finish(task, [action |-> "duplicate",
                                     existingId |-> results[1].entry.id,
                                     existingText |-> results[1].entry.text]),
              db |-> db, lastIndex |-> lastIndex]
        ELSE Only({[task |-> n.task, db |-> db, lastIndex |-> n.lastIndex] :
                   n \in {NextCandidate(task, task.k + 1, language, lastIndex)}}))
  ELSE Only({[task |-> c.task, db |-> c.db, lastIndex |-> lastIndex] :
             c \in {CallDb(task, db, "add")}})

\* The caller goes on after its search has returned results.
afterSearch(found, db, results, language, lastIndex) ==
  Only({afterResults(task, db, results, language, lastIndex) :
        task \in {[found EXCEPT !.results = results]}})

\* The caller goes on after its entry has been added.
afterStore(task, entry, language, lastIndex) ==
  IF task.op = "store"
  THEN [task |-> Finish([task EXCEPT !.added = Append(@, entry.id)], entry),
        lastIndex |-> lastIndex]
  ELSE IF task.op = "memory_store"
  THEN [task |-> Finish([task EXCEPT !.added = Append(@, entry.id)],
                        [action |-> "created", id |-> entry.id]),
        lastIndex |-> lastIndex]
  ELSE NextCandidate([task EXCEPT !.stored = @ + 1, !.added = Append(@, entry.id)],
                     task.k + 1, language, lastIndex)

\* await this.table.delete(`id = '${id}'`), when it succeeds: the rows whose
\* id is the string are gone.
TableDelete(rows, id) == SelectSeq(rows, LAMBDA r : IdString(r.id) # id)

\* TableDelete that takes the first row along.
TableDeleteFirstToo(rows, id) ==
  SelectSeq(IF rows = <<>> THEN rows ELSE Tail(rows), LAMBDA r : IdString(r.id) # id)

\* The caller goes on after the delete: MemoryDB.delete returns true,
\* memory_forget reports the id.
afterDelete(task) ==
  IF task.op = "delete" THEN Finish(task, TRUE)
  ELSE Finish(task, [action |-> "deleted", id |-> task.id])

\* The rows a read of the table has seen, as the results of the call.
RowsRead(rows) == [j \in 1..Len(rows) |-> [entry |-> rows[j]]] \o <<>>

\* MemoryDB.list(): const limit = opts.limit ?? 20
ListLimit == 20

\* db.store(entry), db.search(vector), db.delete(id), db.count(), db.list()
\* called on the instance, each up to its first await that is pending.
dbStore(entry, db) ==
  CallDb([Task("store", entry) EXCEPT !.text = entry.text, !.vector = Embed(entry.text),
                                      !.importance = entry.importance,
                                      !.category = entry.category], db, "add")
dbSearch(txt, db) == CallDb([Task("search", txt) EXCEPT !.vector = Embed(txt)], db, "search")
dbDelete(id, db) == CallDb([Task("delete", id) EXCEPT !.id = id], db, "delete")
dbCount(db) == CallDb(Task("count", Undefined), db, "count")
dbList(db) == CallDb(Task("list", Undefined), db, "list")

\* memoryForget that looks at the query first.
memoryForgetQueryFirst(params, db) ==
  IF params.query # Undefined /\ params.query.value # <<>>
  THEN [task |-> CallEmbed(Task("memory_forget", params), params.query.value), db |-> db]
  ELSE IF params.memoryId # Undefined /\ params.memoryId.value # <<>>
  THEN CallDb([Task("memory_forget", params) EXCEPT !.id = params.memoryId.value], db, "delete")
  ELSE [task |-> Finish(Task("memory_forget", params), [error |-> "missing_param"]), db |-> db]

\* memory_forget.execute(_toolCallId, params), up to its first await or its
\* return.
memoryForget(params, db) ==
  IF params.memoryId # Undefined /\ params.memoryId.value # <<>>
  THEN CallDb([Task("memory_forget", params) EXCEPT !.id = params.memoryId.value], db, "delete")
  ELSE IF params.query # Undefined /\ params.query.value # <<>>
  THEN [task |-> CallEmbed(Task("memory_forget", params), params.query.value), db |-> db]
  ELSE [task |-> Finish(Task("memory_forget", params), [error |-> "missing_param"]), db |-> db]

(***************************************************************************)
(* RawUpdateBuffer: the buffer of the recent Telegram updates              *)
(***************************************************************************)

\* An object, by its own properties.
Obj(fields) == [type |-> "object", fields |-> fields]

\* typeof v === "object"
IsObject(v) == v = Null \/ v.type \in {"object", "array"}

\* typeof v === "number"
IsNumber(v) == v # Null /\ v.type = "number"

\* v is undefined or null: what ?. and ?? test.
Nullish(v) == v = Undefined \/ v = Null

\* v in a condition.
Truthy(v) ==
  IF Nullish(v) THEN FALSE
  ELSE IF v.type = "number" THEN v.value # 0
  ELSE IF v.type = "string" THEN v.value # <<>>
  ELSE TRUE

\* o.name of a value that is not nullish.
Get(o, name) ==
  IF o.type = "object" /\ name \in DOMAIN o.fields THEN o.fields[name] ELSE Undefined

\* o?.chat?.id
ChatIdOf(o) ==
  IF Nullish(o) THEN Undefined
  ELSE IF Nullish(Get(o, "chat")) THEN Undefined
  ELSE Get(Get(o, "chat"), "id")

\* a ?? b
Coalesce(a, b) == IF Nullish(a) THEN b ELSE a

\* The decimal digits of a natural number.
RECURSIVE Decimal(_)
Decimal(n) == IF n < 10 THEN <<48 + n>> ELSE Decimal(n \div 10) \o <<48 + (n % 10)>>

\* String(v) of undefined, a number (an integer) or a string.
String(v) ==
  IF v = Undefined THEN <<117, 110, 100, 101, 102, 105, 110, 101, 100>>
  ELSE IF v.type = "number"
  THEN (IF v.value < 0 THEN <<45>> \o Decimal(0 - v.value) ELSE Decimal(v.value))
  ELSE v.value

\* const DEFAULT_CONFIG
DefaultMaxSize == 100
DefaultTtlMs == 30 * 60 * 1000
DEFAULT_CONFIG == [maxSize |-> DefaultMaxSize, ttlMs |-> DefaultTtlMs]

\* constructor(config): this.config = { ...DEFAULT_CONFIG, ...config }
RawUpdateBufferConfig(config) ==
  [k \in DOMAIN DEFAULT_CONFIG |-> IF k \in DOMAIN config THEN config[k] ELSE DEFAULT_CONFIG[k]]

\* array.slice(start): a negative start counts from the end, and -0 is 0.
Slice(array, start) ==
  SubSeq(array,
         1 + (IF start < 0
              THEN (IF Len(array) + start < 0 THEN 0 ELSE Len(array) + start)
              ELSE (IF start > Len(array) THEN Len(array) ELSE start)),
         Len(array))

\* array.reverse()
Reverse(array) == [k \in 1..Len(array) |-> array[Len(array) + 1 - k]] \o <<>>

\* The type push finds for the update.
UpdateType(update) ==
  IF Truthy(Get(update, "message")) THEN "message"
  ELSE IF Truthy(Get(update, "edited_message")) THEN "edited_message"
  ELSE IF Truthy(Get(update, "channel_post")) THEN "channel_post"
  ELSE IF Truthy(Get(update, "callback_query")) THEN "callback_query"
  ELSE IF Truthy(Get(update, "message_reaction")) THEN "message_reaction"
  ELSE "unknown"

\* The chat id push finds in the update.
UpdateChatId(update) ==
  Coalesce(ChatIdOf(Get(update, "message")),
  Coalesce(ChatIdOf(Get(update, "edited_message")),
  Coalesce(ChatIdOf(Get(update, "channel_post")),
  Coalesce(IF Nullish(Get(update, "callback_query")) THEN Undefined
           ELSE ChatIdOf(Get(Get(update, "callback_query"), "message")),
           ChatIdOf(Get(update, "message_reaction"))))))

\* The array push keeps: trimmed to its last maxSize entries when it is
\* longer than maxSize.
Trim(array, maxSize) ==
  IF Len(array) > maxSize THEN Slice(array, 0 - maxSize) ELSE array

\* Trim that takes the newest entries away.
TrimNewest(array, maxSize) ==
  IF Len(array) > maxSize THEN SubSeq(array, 1, maxSize) ELSE array

\* push(update) at the time dateNow: this.buffer afterwards.
push(array, cnf, update, dateNow) ==
  IF ~Truthy(update) \/ ~IsObject(update) THEN array
  ELSE IF ~IsNumber(Get(update, "update_id")) THEN array
  ELSE Trim(Append(array, [updateId |-> Get(update, "update_id").value,
                           receivedAt |-> dateNow,
                           chatId |-> UpdateChatId(update),
                           type |-> UpdateType(update),
                           raw |-> update]),
            cnf.maxSize)

\* cleanup() at the time dateNow: this.buffer afterwards.
cleanup(array, cnf, dateNow) ==
  SelectSeq(array, LAMBDA e : e.receivedAt > dateNow - cnf.ttlMs)

\* getRecent(count, chatId) of the buffer cleanup() has left.
getRecent(array, count, chatId) ==
  Reverse(Slice(IF chatId # Undefined
                THEN SelectSeq(array, LAMBDA e : String(e.chatId) = String(chatId))
                ELSE array,
                0 - count))

\* getById(updateId) of the buffer cleanup() has left.
getById(array, updateId) ==
  IF \E k \in 1..Len(array) : array[k].updateId = updateId
  THEN array[CHOOSE k \in 1..Len(array) :
               /\ array[k].updateId = updateId
               /\ \A h \in 1..(k - 1) : array[h].updateId # updateId]
  ELSE Undefined

\* getStats() of the buffer cleanup() has left.
getStats(array) ==
  IF Len(array) = 0 THEN [count |-> 0]
  ELSE [count |-> Len(array),
        oldestAt |-> array[1].receivedAt,
        newestAt |-> array[Len(array)].receivedAt]

(***************************************************************************)
(* The state machine                                                       *)
(* A caller puts a text together from the fragments of one vocabulary and  *)
(* calls an operation on it; calls are synchronous, so any number of       *)
(* callers amounts to a sequence of calls.                                 *)
(***************************************************************************)

VARIABLES
  vocab,      \* the vocabulary the texts are put together from
  text,       \* the input text, a sequence of UTF-16 code units
  typed,      \* the number of fragments the text was put together from
  lastIndex,  \* the lastIndex of the rules' RegExp objects (those not 0)
  call,       \* the call in progress: the operation, its arguments, its result
  last,       \* the call that returned last on this text
  value,      \* the language setting of the plugin configuration, as given
  cfg,        \* the configuration register() has parsed
  memdb,      \* the MemoryDB instance and the table behind it
  tasks,      \* the calls of the hooks and tools, running and ended
  buffer,     \* this.buffer of the RawUpdateBuffer
  config,     \* this.config of the RawUpdateBuffer
  now         \* the clock Date.now() reads

\* The state of the plugin.
pluginVars == <<value, cfg, memdb, tasks>>

\* The state of the buffer of updates.
bufferVars == <<buffer, config, now>>

vars == <<vocab, text, typed, lastIndex, call, last, pluginVars, bufferVars>>

\* The longest input, in fragments.
MaxFrags == 2

\* n full stops
Pad(n) == [k \in 1..n |-> 46]

\* The fragments of the texts given to the matcher.
MatcherFragments ==
  << <<114, 101, 109, 101, 109, 98, 101, 114, 32>>,      \* "remember "  en, weight 2
     <<1079, 1072, 1087, 1086, 1084, 1085, 1080, 32>>,   \* "zapomni "   ru, weight 2
     <<105, 32, 108, 105, 107, 101, 32>>,                \* "i like "    en, no weight
     <<97, 64, 98, 46, 105, 111, 32>>,                   \* "a@b.io "    common, weight 2
     <<1079, 1072, 1074, 1078, 1076, 1080, 32>> >>       \* "zavzhdy "   uk, no weight

\* The fragments of the texts the matcher is called on time and again.
RepeatFragments ==
  << <<114, 101, 109, 101, 109, 98, 101, 114, 32>>,      \* "remember "
     <<1079, 1072, 1087, 1086, 1084, 1085, 1080, 32>>,   \* "zapomni "
     <<97, 64, 98, 46, 105, 111, 32>> >>                 \* "a@b.io "

\* The fragments of the texts given to the capture gate, by what they probe:
\* the length bounds, the metadata stripped first, markup, markdown, emoji.
LengthFragments ==
  << <<114, 101, 109, 101, 109, 98, 101, 114, 33>>,      \* "remember!"   9 units
     <<114, 101, 109, 101, 109, 98, 101, 114, 33, 33>>,  \* "remember!!" 10 units
     Pad(491) >>

MetadataFragments ==
  << <<91, 84, 101, 108, 101, 103, 114, 97, 109, 32, 77, 97, 120, 93, 32>>,  \* "[Telegram Max] "
     <<77, 97, 120, 58, 32>>,                                                \* "Max: "
     <<114, 101, 109, 101, 109, 98, 101, 114, 33>>,                          \* "remember!"
     <<10, 91, 109, 101, 115, 115, 97, 103, 101, 95, 105, 100, 58, 32, 55, 93>>,  \* "\n[message_id: 7]"
     <<60, 114, 101, 108, 101, 118, 97, 110, 116, 45, 109, 101, 109, 111, 114, 105, 101, 115, 62,
       111, 108, 100,
       60, 47, 114, 101, 108, 101, 118, 97, 110, 116, 45, 109, 101, 109, 111, 114, 105, 101, 115, 62>> >>
                                             \* "<relevant-memories>old</relevant-memories>"

MarkupFragments ==
  << <<60, 112, 62>>,                                    \* "<p>"
     <<60, 112, 62, 78, 111, 116, 101, 58, 32>>,         \* "<p>Note: "
     <<114, 101, 109, 101, 109, 98, 101, 114, 32, 116, 104, 105, 115, 60, 47, 112, 62>>,  \* "remember this</p>"
     <<114, 101, 109, 101, 109, 98, 101, 114, 32, 116, 104, 105, 115>> >>  \* "remember this"

MarkdownFragments ==
  << <<42, 42, 114, 101, 109, 101, 109, 98, 101, 114, 32, 116, 104, 105, 115, 42, 42>>,  \* "**remember this**"
     <<10, 45, 32, 105, 116, 101, 109>>,                 \* "\n- item"
     <<45, 32, 105, 116, 101, 109, 32>>,                 \* "- item "
     <<114, 101, 109, 101, 109, 98, 101, 114, 32, 116, 104, 105, 115>> >>  \* "remember this"

EmojiFragments ==
  << <<114, 101, 109, 101, 109, 98, 101, 114, 32, 55357, 56832, 55357, 56832, 55357, 56832>>,
                                                         \* "remember " and U+1F600 three times
     <<55357, 56832>>,                                   \* U+1F600
     <<55358, 56944, 55358, 56944, 55358, 56944, 55358, 56944>>,  \* U+1FA70 four times
     <<55357>> >>                                        \* a high surrogate on its own

\* The fragments of the texts given to detectCategory: one for each trigger
\* category and one that fires no rule.
CategoryFragments ==
  << <<114, 101, 109, 101, 109, 98, 101, 114, 32>>,      \* "remember "   remember
     <<105, 32, 108, 105, 107, 101, 32>>,                \* "i like "     preference
     <<100, 101, 99, 105, 100, 101, 100, 32>>,           \* "decided "    decision
     <<97, 64, 98, 46, 105, 111, 32>>,                   \* "a@b.io "     identity
     <<105, 32, 104, 97, 118, 101, 32, 105, 116, 32>>,   \* "i have it "  fact
     <<97, 108, 119, 97, 121, 115, 32>>,                 \* "always "     importance
     <<104, 101, 108, 108, 111, 32>> >>                  \* "hello "      no rule

\* The fragments of the texts that probe the weights of the categories.
WeightFragments ==
  << <<110, 111, 116, 101, 32, 116, 104, 97, 116, 32>>,   \* "note that "  remember, no weight
     <<99, 97, 108, 108, 32, 109, 101, 32>>,   \* "call me "    identity, no weight
     <<114, 101, 109, 101, 109, 98, 101, 114, 32>>,   \* "remember "   remember, weight 2
     <<105, 32, 108, 105, 107, 101, 32>> >>   \* "i like "     preference, no weight

\* The fragments of the texts that hold phone numbers.
PhoneFragments ==
  << <<1087, 1086, 1079, 1074, 1086, 1085, 1080, 32, 1084, 1085, 1077, 32>>,   \* "pozvoni mne " (call me), the text of the test of the 8 format
     <<56, 57, 49, 51, 57, 49, 53, 52, 48, 52, 48>>,   \* "89139154040"
     <<43, 55, 32, 57, 49, 51, 32, 57, 49, 53, 32, 52, 48, 52, 48>>,   \* "+7 913 915 4040"
     <<56, 45, 57, 49, 51, 45, 57, 49, 53, 45, 52, 48, 45, 52, 48>> >>   \* "8-913-915-40-40"

\* The fragments of the texts that hold a trigger phrase inside a longer word.
BoundaryFragments ==
  << <<1079, 1072, 1087, 1080, 1096, 1080>>,   \* "zapishi" (write down)  ru, remember
     <<1089, 1100, 32>>,   \* "s' ", which after "zapishi" makes "zapishis'" (sign up)
     <<117, 110>>,   \* "un"
     <<114, 101, 109, 101, 109, 98, 101, 114, 32>> >>   \* "remember "  en, remember

Vocabularies ==
  <<MatcherFragments, RepeatFragments, LengthFragments, MetadataFragments, MarkupFragments,
    MarkdownFragments, EmojiFragments, CategoryFragments, WeightFragments, PhoneFragments,
    BoundaryFragments>>

\* The language filters the matcher is called with.
Filters == {Auto, Code("en"), Array(<<"ru", "uk">>)}

\* The language settings of the plugin the capture gate is made for.
Languages == {Auto, Code("ru")}

NoCall == [op |-> "none"]

\* The longest array of the configuration.
MaxItems == 2

\* The values the language setting is made of.
ConfigItems ==
  {Str("en"), Str("ru"), Str("common"), Str("auto"), Str("EN"), Num(7), Null, Arr(<<Str("uk")>>)}

\* The most calls of hooks and tools in one behaviour.
MaxTasks == 1

\* The texts of the messages, prompts and tool calls.
TextRemember == <<1079, 1072, 1087, 1086, 1084, 1085, 1080, 32, 1082, 1086, 1076, 32, 49>>   \* "zapomni kod 1" (remember code 1)  remember
TextPreference == <<1103, 32, 1093, 1086, 1095, 1091, 32, 1095, 1072, 1102, 46>>   \* "ya hochu chayu." (i want tea)  preference
TextEmail == <<1087, 1086, 1095, 1090, 1072, 32, 97, 64, 98, 46, 105, 111, 46>>   \* "pochta a@b.io." (mail a@b.io)  identity, common
TextImportant == <<1101, 1090, 1086, 32, 1086, 1095, 1077, 1085, 1100, 32, 1074, 1072, 1078, 1085, 1086>>   \* "eto ochen' vazhno" (this is very important)  importance
TextNever == <<1085, 1080, 1082, 1086, 1075, 1076, 1072, 32, 1085, 1077, 32, 1073, 1091, 1076, 1091>>   \* "nikogda ne budu" (i never will)  importance
TextPlain == <<1087, 1088, 1080, 1074, 1077, 1090, 44, 32, 1082, 1072, 1082, 32, 1076, 1077, 1083, 1072>>   \* "privet, kak dela" (hello, how are you)  no rule
TextEnvelope == <<91, 84, 101, 108, 101, 103, 114, 97, 109, 32, 77, 97, 120, 93, 32>> \o TextRemember   \* "[Telegram Max] " and TextRemember
TextShort == <<104, 105>>   \* "hi"
TextMarkup == <<60, 98, 62, 1079, 1072, 1087, 1086, 1084, 1085, 1080, 60, 47, 98, 62>>   \* "<b>zapomni</b>"
TextLong == Pad(501)

\* The agent_end events.
Events ==
  << [success |-> FALSE, messages |-> Arr(<<Msg("user", Str(TextRemember))>>)],
     [success |-> TRUE, messages |-> Undefined],
     [success |-> TRUE, messages |-> Arr(<<>>)],
     [success |-> TRUE,
      messages |-> Arr(<<Msg("system", Str(TextRemember)),
                         Msg("toolResult", Arr(<<Block("text", Str(TextEmail))>>)),
                         Msg("user", Str(TextPlain)),
                         Msg("user", Num(7)),
                         Msg("assistant", Arr(<<Block("image", Str(TextEmail)),
                                                Block("text", Num(7)), Null>>)),
                         Null, Num(7)>>)],
     [success |-> TRUE,
      messages |-> Arr(<<Msg("user", Str(TextRemember)),
                         Msg("assistant", Arr(<<Block("text", Str(TextPreference)),
                                                Block("text", Str(TextEmail))>>)),
                         Msg("user", Str(TextImportant)),
                         Msg("user", Str(TextNever))>>)],
     [success |-> TRUE,
      messages |-> Arr(<<Msg("user", Str(TextEnvelope)),
                         Msg("system", Str(TextPreference)),
                         Msg("user", Str(TextRemember))>>)] >>

\* The before_agent_start events.
Prompts ==
  << [prompt |-> Undefined], [prompt |-> Str(<<>>)], [prompt |-> Str(TextShort)],
     [prompt |-> Str(TextRemember)] >>

\* The calls of the memory_store tool.
StoreParams ==
  << [text |-> Str(TextShort), importance |-> Undefined, category |-> Undefined],
     [text |-> Str(TextLong), importance |-> Undefined, category |-> Undefined],
     [text |-> Str(TextMarkup), importance |-> Num(90), category |-> Str("fact")],
     [text |-> Str(TextPlain), importance |-> Undefined, category |-> Str("preference")],
     [text |-> Str(TextRemember), importance |-> Num(10), category |-> Undefined] >>

\* The table the plugin finds in its database directory: none, an empty
\* one, one with an entry of an earlier run.
Databases ==
  << MemoryDB(FALSE, <<>>),
     MemoryDB(TRUE, <<>>),
     MemoryDB(TRUE, <<[id |-> Uuid(0, 0), text |-> TextRemember, vector |-> Embed(TextRemember),
                       importance |-> 70, category |-> "other"]>>) >>

\* The most calls that run at the same time.
MaxRacers == 2

\* The most calls of the methods of one MemoryDB, which run at the same time.
MaxCalls == 2

\* What the methods of MemoryDB are called with.
DbEntries == {[text |-> TextPlain, importance |-> 50, category |-> "fact"]}
DbQueries == {TextRemember}

\* The ids MemoryDB.delete is called with: the id of the entry of the
\* earlier run, the same in capitals, a UUID no entry has, and strings that
\* are no UUID (empty, the placeholder's id, one unit short, a letter
\* beyond f, a hyphen out of place, a line feed behind, a quote and an OR).
DeleteIds ==
  { UuidString(0, 0),
    [k \in 1..36 |-> IF UuidString(0, 0)[k] = 97 THEN 65 ELSE UuidString(0, 0)[k]],
    UuidString(9, 9),
    <<>>,
    IdString(SchemaId),
    SubSeq(UuidString(0, 0), 1, 35),
    [UuidString(0, 0) EXCEPT ![1] = 103],
    [UuidString(0, 0) EXCEPT ![9] = 48, ![10] = 45],
    UuidString(0, 0) \o <<10>>,
    <<120, 39, 32, 79, 82, 32, 39, 49, 39, 61, 39, 49>> }

\* The calls of the memory_forget tool: an id with a query, an id that is
\* no UUID, an empty id with a query, a query alone, nothing, an empty query.
ForgetParams ==
  << [memoryId |-> Str(UuidString(0, 0)), query |-> Str(TextPlain)],
     [memoryId |-> Str(<<97, 98, 99>>), query |-> Undefined],
     [memoryId |-> Str(<<>>), query |-> Str(TextRemember)],
     [memoryId |-> Undefined, query |-> Str(TextRemember)],
     [memoryId |-> Undefined, query |-> Undefined],
     [memoryId |-> Undefined, query |-> Str(<<>>)] >>

\* The tables memory_forget finds: none, one entry, two entries.
ForgetDatabases ==
  << MemoryDB(FALSE, <<>>),
     MemoryDB(TRUE, <<[id |-> Uuid(0, 0), text |-> TextRemember, vector |-> Embed(TextRemember),
                       importance |-> 70, category |-> "other"]>>),
     MemoryDB(TRUE, <<[id |-> Uuid(0, 0), text |-> TextRemember, vector |-> Embed(TextRemember),
                       importance |-> 70, category |-> "other"],
                      [id |-> Uuid(0, 1), text |-> TextPreference,
                       vector |-> Embed(TextPreference),
                       importance |-> 70, category |-> "preference"]>>) >>

\* The events and the tool calls that run at the same time: they bring the
\* same text, and one other.
RaceEvents ==
  << [success |-> TRUE, messages |-> Arr(<<Msg("user", Str(TextRemember))>>)],
     [success |-> TRUE, messages |-> Arr(<<Msg("user", Str(TextEnvelope)),
                                           Msg("assistant", Str(TextPreference))>>)] >>

RaceParams ==
  << [text |-> Str(TextRemember), importance |-> Undefined, category |-> Undefined],
     [text |-> Str(TextPlain), importance |-> Undefined, category |-> Undefined] >>

\* The singleton rawUpdateBuffer = new RawUpdateBuffer(), nothing pushed.
BufferIdle ==
  /\ buffer = <<>>
  /\ config = RawUpdateBufferConfig(<<>>)
  /\ now = 0

\* No configuration given, the plugin at rest.
PluginIdle ==
  /\ value = Undefined
  /\ cfg = [language |-> parseLanguage(Undefined)]
  /\ memdb = Databases[1]
  /\ tasks = <<>>

\* register(api) with "language": "ru" and one of the databases.
InitPlugin ==
  /\ vocab = 1
  /\ text = <<>>
  /\ typed = 0
  /\ lastIndex = {}
  /\ call = NoCall
  /\ last = NoCall
  /\ BufferIdle
  /\ value = Str("ru")
  /\ cfg = [language |-> parseLanguage(Str("ru"))]
  /\ \E d \in 1..Len(Databases) : memdb = Databases[d]
  /\ tasks = <<>>

\* register(api) with one of the tables of memory_forget.
InitForget ==
  /\ vocab = 1
  /\ text = <<>>
  /\ typed = 0
  /\ lastIndex = {}
  /\ call = NoCall
  /\ last = NoCall
  /\ BufferIdle
  /\ value = Str("ru")
  /\ cfg = [language |-> parseLanguage(Str("ru"))]
  /\ \E d \in 1..Len(ForgetDatabases) : memdb = ForgetDatabases[d]
  /\ tasks = <<>>

Init ==
  /\ vocab = 1
  /\ text = <<>>
  /\ typed = 0
  /\ lastIndex = {}
  /\ call = NoCall
  /\ last = NoCall
  /\ BufferIdle
  /\ PluginIdle

InitRepeat ==
  /\ vocab = 2
  /\ text = <<>>
  /\ typed = 0
  /\ lastIndex = {}
  /\ call = NoCall
  /\ last = NoCall
  /\ BufferIdle
  /\ PluginIdle

InitCapture ==
  /\ vocab \in 3..7
  /\ text = <<>>
  /\ typed = 0
  /\ lastIndex = {}
  /\ call = NoCall
  /\ last = NoCall
  /\ BufferIdle
  /\ PluginIdle

InitCatalog ==
  /\ vocab \in 9..11
  /\ text = <<>>
  /\ typed = 0
  /\ lastIndex = {}
  /\ call = NoCall
  /\ last = NoCall
  /\ BufferIdle
  /\ PluginIdle

InitCategory ==
  /\ vocab = 8
  /\ text = <<>>
  /\ typed = 0
  /\ lastIndex = {}
  /\ call = NoCall
  /\ last = NoCall
  /\ BufferIdle
  /\ PluginIdle

\* The caller puts the text together.
Type(f) ==
  /\ call = NoCall
  /\ typed < MaxFrags
  /\ text' = text \o Vocabularies[vocab][f]
  /\ typed' = typed + 1
  /\ last' = NoCall
  /\ UNCHANGED <<bufferVars, pluginVars, vocab, lastIndex, call>>

\* The caller starts a new text.
Clear ==
  /\ call = NoCall
  /\ typed > 0
  /\ text' = <<>>
  /\ typed' = 0
  /\ last' = NoCall
  /\ UNCHANGED <<bufferVars, pluginVars, vocab, lastIndex, call>>

\* matchTrigger(text, languages)
MatchTrigger(languages) ==
  /\ call = NoCall
  /\ \E r \in {matchTrigger(text, languages, lastIndex)} :
       /\ call' = [op |-> "matchTrigger", languages |-> languages, result |-> r.result]
       /\ lastIndex' = r.lastIndex
  /\ UNCHANGED <<bufferVars, pluginVars, vocab, text, typed, last>>

\* getAllMatches(text, languages)
GetAllMatches(languages) ==
  /\ call = NoCall
  /\ \E r \in {getAllMatches(text, languages, lastIndex)} :
       /\ call' = [op |-> "getAllMatches", languages |-> languages, result |-> r.result]
       /\ lastIndex' = r.lastIndex
  /\ UNCHANGED <<bufferVars, pluginVars, vocab, text, typed, last>>

\* createShouldCapture(language)(text)
ShouldCapture(language) ==
  /\ call = NoCall
  /\ \E r \in {shouldCapture(text, language, lastIndex)} :
       /\ call' = [op |-> "shouldCapture", languages |-> language, result |-> r.result]
       /\ lastIndex' = r.lastIndex
  /\ UNCHANGED <<bufferVars, pluginVars, vocab, text, typed, last>>

\* createDetectCategory(language)(text)
DetectCategory(language) ==
  /\ call = NoCall
  /\ \E r \in {detectCategory(text, language, lastIndex)} :
       /\ call' = [op |-> "detectCategory", languages |-> language, result |-> r.result]
       /\ lastIndex' = r.lastIndex
  /\ UNCHANGED <<bufferVars, pluginVars, vocab, text, typed, last>>

\* The configuration file gives "language" a single value.
SetValue(v) ==
  /\ call = NoCall
  /\ value = Undefined
  /\ value' = v
  /\ UNCHANGED <<bufferVars, vocab, text, typed, lastIndex, call, last, cfg, memdb, tasks>>

\* The configuration file gives "language" an array, item by item.
NewArray ==
  /\ call = NoCall
  /\ value = Undefined
  /\ value' = Arr(<<>>)
  /\ UNCHANGED <<bufferVars, vocab, text, typed, lastIndex, call, last, cfg, memdb, tasks>>

PushItem(v) ==
  /\ call = NoCall
  /\ IsArray(value)
  /\ Len(value.items) < MaxItems
  /\ value' = Arr(Append(value.items, v))
  /\ UNCHANGED <<bufferVars, vocab, text, typed, lastIndex, call, last, cfg, memdb, tasks>>

\* parseLanguage(cfg.language)
ParseLanguage ==
  /\ call = NoCall
  /\ \E r \in {parseLanguage(value)} :
       /\ call' = [op |-> "parseLanguage", result |-> r]
       /\ cfg' = [cfg EXCEPT !.language = r]
  /\ UNCHANGED <<bufferVars, vocab, text, typed, lastIndex, last, value, memdb, tasks>>

\* The host emits agent_end: the handler runs up to its first await.
AgentEnd(event) ==
  /\ Len(tasks) < MaxTasks
  /\ \E r \in {agentEnd(event, cfg.language, lastIndex)} :
       /\ tasks' = Append(tasks, r.task)
       /\ lastIndex' = r.lastIndex
  /\ UNCHANGED <<bufferVars, vocab, text, typed, call, last, value, cfg, memdb>>

\* The host emits before_agent_start: the handler runs up to its first await.
BeforeAgentStart(event) ==
  /\ Len(tasks) < MaxTasks
  /\ tasks' = Append(tasks, beforeAgentStart(event))
  /\ UNCHANGED <<bufferVars, vocab, text, typed, lastIndex, call, last, value, cfg, memdb>>

\* The agent calls the memory_store tool: execute runs up to its first await.
MemoryStore(params) ==
  /\ Len(tasks) < MaxTasks
  /\ tasks' = Append(tasks, memoryStore(params))
  /\ UNCHANGED <<bufferVars, vocab, text, typed, lastIndex, call, last, value, cfg, memdb>>

\* await embeddings.embed(text) settles for call t; on success the caller
\* goes on to db.search(vector, ...).
EmbedSettles(t, ok) ==
  /\ tasks[t].pc = "embed"
  /\ IF ok
     THEN \E c \in {CallDb([tasks[t] EXCEPT !.vector = Embed(tasks[t].text)], memdb, "search")} :
            /\ tasks' = [tasks EXCEPT ![t] = c.task]
            /\ memdb' = c.db
     ELSE /\ tasks' = [tasks EXCEPT ![t] = Throw(tasks[t], "embed")]
          /\ memdb' = memdb
  /\ UNCHANGED <<bufferVars, vocab, text, typed, lastIndex, call, last, value, cfg>>

\* An await of doInitialize settles.
DoInitialize(ok) ==
  /\ memdb.init \in {"connect", "tableNames", "openTable", "createTable", "delete"}
  /\ memdb' = doInitialize(memdb, ok)
  /\ UNCHANGED <<bufferVars, vocab, text, typed, lastIndex, call, last, value, cfg, tasks>>

\* await this.ensureInitialized() settles for call t, which awaited
\* initPromise.
InitSettles(t) ==
  /\ tasks[t].pc = "init"
  /\ memdb.initPromise \in {"fulfilled", "rejected"}
  /\ tasks' = [tasks EXCEPT ![t] = IF memdb.initPromise = "fulfilled"
                                   THEN afterInit(tasks[t])
                                   ELSE Throw(tasks[t], "init")]
  /\ UNCHANGED <<bufferVars, vocab, text, typed, lastIndex, call, last, value, cfg, memdb>>

\* await this.table.vectorSearch(vector).limit(limit).toArray() settles for
\* call t; on success the caller goes on with the results.
SearchSettles(t, ok) ==
  /\ tasks[t].pc = "search"
  /\ IF ok
     THEN \E results \in SearchOutcomes(memdb.rows, SearchLimit(tasks[t].op),
                                        SearchMinScore(tasks[t].op)) :
          \E r \in {afterSearch(tasks[t], memdb, results, cfg.language, lastIndex)} :
            /\ tasks' = [tasks EXCEPT ![t] = r.task]
            /\ memdb' = r.db
            /\ lastIndex' = r.lastIndex
     ELSE /\ tasks' = [tasks EXCEPT ![t] = Throw(tasks[t], "search")]
          /\ UNCHANGED <<memdb, lastIndex>>
  /\ UNCHANGED <<bufferVars, vocab, text, typed, call, last, value, cfg>>

\* await this.table.add([fullEntry]) settles for call t; on success the
\* entry is in the table and the caller goes on.
AddSettles(t, ok) ==
  /\ tasks[t].pc = "add"
  /\ IF ok
     THEN \E entry \in {FullEntry(tasks[t], t)} :
          \E r \in {afterStore(tasks[t], entry, cfg.language, lastIndex)} :
            /\ memdb' = [memdb EXCEPT !.rows = Append(@, entry)]
            /\ tasks' = [tasks EXCEPT ![t] = r.task]
            /\ lastIndex' = r.lastIndex
     ELSE /\ tasks' = [tasks EXCEPT ![t] = Throw(tasks[t], "add")]
          /\ UNCHANGED <<memdb, lastIndex>>
  /\ UNCHANGED <<bufferVars, vocab, text, typed, call, last, value, cfg>>

\* agent_end while other calls are under way.
ConcurrentAgentEnd(event) ==
  /\ Len(tasks) < MaxRacers
  /\ \E r \in {agentEnd(event, cfg.language, lastIndex)} :
       /\ tasks' = Append(tasks, r.task)
       /\ lastIndex' = r.lastIndex
  /\ UNCHANGED <<bufferVars, vocab, text, typed, call, last, value, cfg, memdb>>

\* memory_store while other calls are under way.
ConcurrentMemoryStore(params) ==
  /\ Len(tasks) < MaxRacers
  /\ tasks' = Append(tasks, memoryStore(params))
  /\ UNCHANGED <<bufferVars, vocab, text, typed, lastIndex, call, last, value, cfg, memdb>>

\* SearchSettles with a database that finds the row of an identical vector.
ExactSearchSettles(t, ok) ==
  /\ tasks[t].pc = "search"
  /\ IF ok
     THEN \E results \in ExactSearchOutcomes(memdb.rows, tasks[t].vector,
                                             SearchLimit(tasks[t].op),
                                             SearchMinScore(tasks[t].op)) :
          \E r \in {afterSearch(tasks[t], memdb, results, cfg.language, lastIndex)} :
            /\ tasks' = [tasks EXCEPT ![t] = r.task]
            /\ memdb' = r.db
            /\ lastIndex' = r.lastIndex
     ELSE /\ tasks' = [tasks EXCEPT ![t] = Throw(tasks[t], "search")]
          /\ UNCHANGED <<memdb, lastIndex>>
  /\ UNCHANGED <<bufferVars, vocab, text, typed, call, last, value, cfg>>

\* await this.table.delete(...) settles for call t.
DeleteSettles(t, ok) ==
  /\ tasks[t].pc = "delete"
  /\ IF ok
     THEN /\ memdb' = [memdb EXCEPT !.rows = TableDelete(@, tasks[t].id)]
          /\ tasks' = [tasks EXCEPT ![t] = afterDelete(tasks[t])]
     ELSE /\ tasks' = [tasks EXCEPT ![t] = Throw(tasks[t], "delete")]
          /\ memdb' = memdb
  /\ UNCHANGED <<bufferVars, vocab, text, typed, lastIndex, call, last, value, cfg>>

\* this.table.countRows() settles for call t.
CountSettles(t, ok) ==
  /\ tasks[t].pc = "count"
  /\ tasks' = [tasks EXCEPT ![t] =
                 IF ok THEN Finish([tasks[t] EXCEPT !.results = RowsRead(memdb.rows)],
                                   Len(memdb.rows))
                 ELSE Throw(tasks[t], "count")]
  /\ UNCHANGED <<bufferVars, vocab, text, typed, lastIndex, call, last, value, cfg, memdb>>

\* await query.toArray() settles for call t of list(): the entries of at
\* most limit rows (their order, by createdAt, is not kept here).
ListSettles(t, ok) ==
  /\ tasks[t].pc = "list"
  /\ tasks' = [tasks EXCEPT ![t] =
                 IF ok
                 THEN Only({Finish([tasks[t] EXCEPT !.results = RowsRead(read)],
                                   {read[j] : j \in 1..Len(read)}) :
                            read \in {SubSeq(memdb.rows, 1,
                                             IF Len(memdb.rows) < ListLimit
                                             THEN Len(memdb.rows) ELSE ListLimit)}})
                 ELSE Throw(tasks[t], "list")]
  /\ UNCHANGED <<bufferVars, vocab, text, typed, lastIndex, call, last, value, cfg, memdb>>

\* A method of the MemoryDB instance is called.
DbCall(c) ==
  /\ Len(tasks) < MaxCalls
  /\ tasks' = Append(tasks, c.task)
  /\ memdb' = c.db
  /\ UNCHANGED <<bufferVars, vocab, text, typed, lastIndex, call, last, value, cfg>>

DbStore(entry) == DbCall(dbStore(entry, memdb))
DbSearch(txt) == DbCall(dbSearch(txt, memdb))
DbDelete(id) == DbCall(dbDelete(id, memdb))
DbCount == DbCall(dbCount(memdb))
DbList == DbCall(dbList(memdb))

\* The agent calls the memory_forget tool: execute runs up to its first
\* await or its return.
MemoryForget(params) ==
  /\ Len(tasks) < MaxTasks
  /\ \E c \in {memoryForget(params, memdb)} :
       /\ tasks' = Append(tasks, c.task)
       /\ memdb' = c.db
  /\ UNCHANGED <<bufferVars, vocab, text, typed, lastIndex, call, last, value, cfg>>

\* The call returns to its caller, who keeps the result.
Return ==
  /\ call # NoCall
  /\ last' = call
  /\ call' = NoCall
  /\ UNCHANGED <<bufferVars, pluginVars, vocab, text, typed, lastIndex>>

\* One call of the matcher on a text.
Next ==
  \/ \E f \in 1..Len(Vocabularies[vocab]) : Type(f)
  \/ \E l \in Filters : MatchTrigger(l)
  \/ \E l \in Filters : GetAllMatches(l)

Spec == Init /\ [][Next]_vars

\* Calls of the matcher one after the other, on one text or on several.
NextRepeat ==
  \/ \E f \in 1..Len(Vocabularies[vocab]) : Type(f)
  \/ Clear
  \/ \E l \in Filters : MatchTrigger(l)
  \/ \E l \in Filters : GetAllMatches(l)
  \/ Return

SpecRepeat == InitRepeat /\ [][NextRepeat]_vars

\* One call of the capture gate on a text.
NextCapture ==
  \/ \E f \in 1..Len(Vocabularies[vocab]) : Type(f)
  \/ \E l \in Languages : ShouldCapture(l)

SpecCapture == InitCapture /\ [][NextCapture]_vars

\* One call of detectCategory on a text.
NextCategory ==
  \/ \E f \in 1..Len(Vocabularies[vocab]) : Type(f)
  \/ \E l \in Languages : DetectCategory(l)

SpecCategory == InitCategory /\ [][NextCategory]_vars

\* One call of parseLanguage on a language setting.
NextConfig ==
  \/ \E v \in ConfigItems : SetValue(v)
  \/ NewArray
  \/ \E v \in ConfigItems : PushItem(v)
  \/ ParseLanguage

SpecConfig == Init /\ [][NextConfig]_vars

\* One call of the matcher on a text that probes the catalogue.
NextCatalog ==
  \/ \E f \in 1..Len(Vocabularies[vocab]) : Type(f)
  \/ \E l \in Languages : MatchTrigger(l)
  \/ \E l \in Languages : GetAllMatches(l)

SpecCatalog == InitCatalog /\ [][NextCatalog]_vars

\* The awaits of the calls and of the initialization settle.
Settle ==
  \/ \E t \in 1..Len(tasks), ok \in BOOLEAN : EmbedSettles(t, ok)
  \/ \E ok \in BOOLEAN : DoInitialize(ok)
  \/ \E t \in 1..Len(tasks) : InitSettles(t)
  \/ \E t \in 1..Len(tasks), ok \in BOOLEAN : SearchSettles(t, ok)
  \/ \E t \in 1..Len(tasks), ok \in BOOLEAN : AddSettles(t, ok)

\* The lifecycle hooks.
NextHooks ==
  \/ \E e \in 1..Len(Events) : AgentEnd(Events[e])
  \/ \E e \in 1..Len(Prompts) : BeforeAgentStart(Prompts[e])
  \/ Settle

SpecHooks == InitPlugin /\ [][NextHooks]_vars

\* The memory_store tool.
NextStore ==
  \/ \E p \in 1..Len(StoreParams) : MemoryStore(StoreParams[p])
  \/ Settle

SpecStore == InitPlugin /\ [][NextStore]_vars

\* agent_end handlers and memory_store calls that run at the same time, on a
\* database whose search finds the row of an identical vector.
NextRace ==
  \/ \E e \in 1..Len(RaceEvents) : ConcurrentAgentEnd(RaceEvents[e])
  \/ \E p \in 1..Len(RaceParams) : ConcurrentMemoryStore(RaceParams[p])
  \/ \E t \in 1..Len(tasks), ok \in BOOLEAN : EmbedSettles(t, ok)
  \/ \E ok \in BOOLEAN : DoInitialize(ok)
  \/ \E t \in 1..Len(tasks) : InitSettles(t)
  \/ \E t \in 1..Len(tasks), ok \in BOOLEAN : ExactSearchSettles(t, ok)
  \/ \E t \in 1..Len(tasks), ok \in BOOLEAN : AddSettles(t, ok)

SpecRace == InitPlugin /\ [][NextRace]_vars

\* Calls of the methods of one MemoryDB instance that run at the same time.
NextDb ==
  \/ \E entry \in DbEntries : DbStore(entry)
  \/ \E txt \in DbQueries : DbSearch(txt)
  \/ \E id \in DeleteIds : DbDelete(id)
  \/ DbCount
  \/ DbList
  \/ \E ok \in BOOLEAN : DoInitialize(ok)
  \/ \E t \in 1..Len(tasks) : InitSettles(t)
  \/ \E t \in 1..Len(tasks), ok \in BOOLEAN : SearchSettles(t, ok)
  \/ \E t \in 1..Len(tasks), ok \in BOOLEAN : AddSettles(t, ok)
  \/ \E t \in 1..Len(tasks), ok \in BOOLEAN : DeleteSettles(t, ok)
  \/ \E t \in 1..Len(tasks), ok \in BOOLEAN : CountSettles(t, ok)
  \/ \E t \in 1..Len(tasks), ok \in BOOLEAN : ListSettles(t, ok)

SpecDb == InitPlugin /\ [][NextDb]_vars

\* The memory_forget tool.
NextForget ==
  \/ \E p \in 1..Len(ForgetParams) : MemoryForget(ForgetParams[p])
  \/ \E t \in 1..Len(tasks), ok \in BOOLEAN : EmbedSettles(t, ok)
  \/ \E ok \in BOOLEAN : DoInitialize(ok)
  \/ \E t \in 1..Len(tasks) : InitSettles(t)
  \/ \E t \in 1..Len(tasks), ok \in BOOLEAN : SearchSettles(t, ok)
  \/ \E t \in 1..Len(tasks), ok \in BOOLEAN : DeleteSettles(t, ok)

SpecForget == InitForget /\ [][NextForget]_vars

(***************************************************************************)
(* The buffer of updates: createRawUpdateBuffer(config) and the calls of   *)
(* its methods, which are synchronous, while the clock goes on.            *)
(***************************************************************************)

\* The most entries the buffer is let to hold before a push.
MaxHeld == 3

\* The latest time of the clock.
MaxNow == 2

\* The configurations the buffer is created with: none (the singleton), and
\* sizes of 0 to 2 entries with a time to live of 2.
BufferConfigs ==
  { <<>>,
    [maxSize |-> 0],
    [maxSize |-> 1, ttlMs |-> 2],
    [maxSize |-> 2, ttlMs |-> 2] }

\* What push is called with: undefined, null, a number, a string, an array,
\* an object without update_id, one whose update_id is a string, and
\* updates: a message of chat 7, a callback query on a message of chat -7,
\* a channel post without chat beside a reaction in chat "7", and an update
\* of no known kind.
Updates ==
  << Undefined,
     Null,
     Num(5),
     Str(<<120>>),
     Arr(<<>>),
     Obj([message |-> Obj([chat |-> Obj([id |-> Num(7)])])]),
     Obj([update_id |-> Str(<<55>>), message |-> Obj([chat |-> Obj([id |-> Num(7)])])]),
     Obj([update_id |-> Num(1), message |-> Obj([chat |-> Obj([id |-> Num(7)])])]),
     Obj([update_id |-> Num(2),
          callback_query |-> Obj([message |-> Obj([chat |-> Obj([id |-> Num(0 - 7)])])])]),
     Obj([update_id |-> Num(1),
          channel_post |-> Obj([text |-> Str(<<120>>)]),
          message_reaction |-> Obj([chat |-> Obj([id |-> Str(<<55>>)])])]),
     Obj([update_id |-> Num(3)]) >>

\* The chats getRecent is asked for.
ChatIds == {Undefined, Num(7), Str(<<55>>), Num(0 - 7), Str(<<117, 110, 100, 101, 102, 105, 110, 101, 100>>)}

\* createRawUpdateBuffer(config), nothing pushed.
InitBuffer ==
  /\ vocab = 1
  /\ text = <<>>
  /\ typed = 0
  /\ lastIndex = {}
  /\ call = NoCall
  /\ last = NoCall
  /\ PluginIdle
  /\ buffer = <<>>
  /\ \E c \in BufferConfigs : config = RawUpdateBufferConfig(c)
  /\ now = 0

\* push(update)
Push(update) ==
  /\ Len(buffer) <= MaxHeld
  /\ buffer' = push(buffer, config, update, now)
  /\ last' = [op |-> "push"]
  /\ UNCHANGED <<config, now, pluginVars, vocab, text, typed, lastIndex, call>>

\* getRecent(count, chatId)
GetRecent(count, chatId) ==
  /\ buffer' = cleanup(buffer, config, now)
  /\ last' = [op |-> "getRecent", result |-> getRecent(buffer', count, chatId)]
  /\ UNCHANGED <<config, now, pluginVars, vocab, text, typed, lastIndex, call>>

\* getById(updateId)
GetById(updateId) ==
  /\ buffer' = cleanup(buffer, config, now)
  /\ last' = [op |-> "getById", result |-> getById(buffer', updateId)]
  /\ UNCHANGED <<config, now, pluginVars, vocab, text, typed, lastIndex, call>>

\* getStats()
GetStats ==
  /\ buffer' = cleanup(buffer, config, now)
  /\ last' = [op |-> "getStats", result |-> getStats(buffer')]
  /\ UNCHANGED <<config, now, pluginVars, vocab, text, typed, lastIndex, call>>

\* clear()
ClearBuffer ==
  /\ buffer' = <<>>
  /\ last' = [op |-> "clear"]
  /\ UNCHANGED <<config, now, pluginVars, vocab, text, typed, lastIndex, call>>

\* Time passes.
Tick ==
  /\ now < MaxNow
  /\ now' = now + 1
  /\ UNCHANGED <<buffer, config, last, pluginVars, vocab, text, typed, lastIndex, call>>

NextBuffer ==
  \/ \E u \in 1..Len(Updates) : Push(Updates[u])
  \/ \E count \in 0..2, chatId \in ChatIds : GetRecent(count, chatId)
  \/ \E updateId \in 1..3 : GetById(updateId)
  \/ GetStats
  \/ ClearBuffer
  \/ Tick

SpecBuffer == InitBuffer /\ [][NextBuffer]_vars

(***************************************************************************)
(* Properties                                                              *)
(* What the specification says of the matcher is stated with the two       *)
(* definitions below, which do not go through getFilteredTriggers or the   *)
(* loop of matchTrigger.                                                   *)
(***************************************************************************)

\* The language lang is admitted by the filter: every language under
\* "auto", else the codes of the filter and "common".
InFilter(lang, languages) ==
  \/ languages.kind = "auto"
  \/ lang = "common"
  \/ languages.kind = "code" /\ lang = languages.code
  \/ languages.kind = "array" /\ \E k \in 1..Len(languages.codes) : lang = languages.codes[k]

\* The rules of the catalogue all, as indices, that the filter admits and
\* whose pattern matches t.
Firing(all, t, languages) ==
  {i \in 1..Len(all) :
     /\ InFilter(all[i].lang, languages)
     /\ RegExpExec(all[i].pattern, all[i].flags, 0, t).found}

\* The highest weight among the rules fired of the catalogue all.
MaxWeight(all, fired) ==
  CHOOSE w \in {WeightOf(all[i]) : i \in fired} : \A i \in fired : WeightOf(all[i]) <= w

\* C1: whenever a rule of the filtered catalogue fires on the text,
\* matchTrigger returns a match whose weight is the highest weight among
\* the firing rules and whose category and lang are those of a firing rule
\* of that weight.
C1_HighestWeightWins ==
  call.op = "matchTrigger" =>
    \A all \in {ALL_TRIGGERS} : \A fired \in {Firing(all, text, call.languages)} :
      fired # {} =>
        /\ call.result # Null
        /\ call.result.weight = MaxWeight(all, fired)
        /\ \E i \in fired :
             /\ WeightOf(all[i]) = call.result.weight
             /\ all[i].category = call.result.category
             /\ all[i].lang = call.result.lang

\* A rule of weight 2 and a rule without weight of another category fire,
\* and the match has the category of the former.
C1_Witness ==
  /\ call.op = "matchTrigger"
  /\ call.result # Null
  /\ call.result.weight = 2
  /\ \E all \in {ALL_TRIGGERS} : \E fired \in {Firing(all, text, call.languages)} :
       \E i \in fired :
         /\ WeightOf(all[i]) = 1
         /\ all[i].category # call.result.category

\* C2: among the firing rules of the highest weight, matchTrigger returns
\* the category and lang of the one declared first in ALL_TRIGGERS.
C2_FirstDeclaredWins ==
  call.op = "matchTrigger" =>
    \A all \in {ALL_TRIGGERS} : \A fired \in {Firing(all, text, call.languages)} :
      fired # {} =>
        \A top \in {{i \in fired : WeightOf(all[i]) = MaxWeight(all, fired)}} :
          \A first \in {MinOf(top)} :
            /\ call.result # Null
            /\ call.result.category = all[first].category
            /\ call.result.lang = all[first].lang

\* Rules of two languages share the highest weight, and the match is the
\* one declared first.
C2_Witness ==
  /\ call.op = "matchTrigger"
  /\ call.result # Null
  /\ \E all \in {ALL_TRIGGERS} : \E fired \in {Firing(all, text, call.languages)} :
       \E i \in fired : \E j \in fired :
         /\ i < j
         /\ WeightOf(all[i]) = call.result.weight
         /\ WeightOf(all[j]) = call.result.weight
         /\ all[i].lang = call.result.lang
         /\ all[j].lang # call.result.lang
         /\ \A k \in fired : WeightOf(all[k]) <= call.result.weight

\* C3: every call of matchTrigger returns, and it returns null exactly when
\* no rule of the filtered catalogue fires; no rule of the catalogue matches
\* the empty text, on which matchTrigger returns null under every filter.
C3_NullIffNothingFires ==
  /\ call.op = "matchTrigger" =>
       /\ call.result = Null <=> Firing(ALL_TRIGGERS, text, call.languages) = {}
       /\ text = <<>> => call.result = Null
  /\ call.op = "getAllMatches" /\ text = <<>> => call.result = <<>>

\* matchTrigger was called on the empty text and returned null.
C3_Witness ==
  /\ call.op = "matchTrigger"
  /\ text = <<>>
  /\ call.result = Null

\* C4: under a filter other than "auto", the lang of a match of
\* matchTrigger, and of every rule getAllMatches returns, is a code of the
\* filter or "common".
C4_NoRuleOutsideFilter ==
  /\ call.op = "matchTrigger" /\ call.languages # Auto /\ call.result # Null =>
       InFilter(call.result.lang, call.languages)
  /\ call.op = "getAllMatches" /\ call.languages # Auto =>
       \A all \in {ALL_TRIGGERS} :
         \A k \in 1..Len(call.result) : InFilter(all[call.result[k]].lang, call.languages)

\* Under a filter other than "auto" getAllMatches returned rules, and a rule
\* of a language outside the filter matches the text.
C4_Witness ==
  /\ call.op = "getAllMatches"
  /\ call.languages # Auto
  /\ call.result # <<>>
  /\ \E all \in {ALL_TRIGGERS} :
       \E i \in Firing(all, text, Auto) : ~InFilter(all[i].lang, call.languages)

\* C5: the common rules are evaluated under every filter: on a text a
\* common rule fires on, matchTrigger does not return null, and when no
\* rule of a language of the filter fires the match has lang "common".
C5_CommonRulesAlwaysActive ==
  call.op = "matchTrigger" =>
    \A all \in {ALL_TRIGGERS} : \A fired \in {Firing(all, text, Auto)} :
      (\E i \in fired : all[i].lang = "common") =>
        /\ call.result # Null
        /\ (\A i \in fired : InFilter(all[i].lang, call.languages) => all[i].lang = "common")
             => call.result.lang = "common"

\* Under a filter other than "auto" the text fires a common rule and a
\* rule of a language outside the filter, and the match is the common one.
C5_Witness ==
  /\ call.op = "matchTrigger"
  /\ call.languages # Auto
  /\ call.result # Null
  /\ call.result.lang = "common"
  /\ \E all \in {ALL_TRIGGERS} :
       \E i \in Firing(all, text, Auto) : all[i].lang # "common"

\* C6: when matchTrigger returns a match under a filter other than "auto",
\* it returns a match under "auto" too, of a weight that is not lower.
C6_NarrowingNeverRaisesWeight ==
  call.op = "matchTrigger" /\ call.languages # Auto /\ call.result # Null =>
    \A auto \in {matchTrigger(text, Auto, lastIndex).result} :
      /\ auto # Null
      /\ auto.weight >= call.result.weight

\* The match under the narrowed filter has a lower weight than the match
\* under "auto".
C6_Witness ==
  /\ call.op = "matchTrigger"
  /\ call.languages # Auto
  /\ call.result # Null
  /\ matchTrigger(text, Auto, lastIndex).result.weight > call.result.weight

\* C7: matchTrigger and getAllMatches keep no state: a call returns what the
\* call with the same arguments returned before, what it returns when no
\* call was made before it, and no call changes the lastIndex of a rule's
\* RegExp object.
C7_CallsKeepNoState ==
  /\ lastIndex = {}
  /\ call # NoCall /\ last # NoCall /\ last.op = call.op /\ last.languages = call.languages =>
       call.result = last.result
  /\ call.op = "matchTrigger" => call.result = matchTrigger(text, call.languages, {}).result
  /\ call.op = "getAllMatches" => call.result = getAllMatches(text, call.languages, {}).result

\* A call with the arguments of the call before it returned a match.
C7_Witness ==
  /\ call.op = "matchTrigger"
  /\ last # NoCall
  /\ last.op = call.op
  /\ last.languages = call.languages
  /\ call.result # Null

\* The text is flagged by the markup check: it begins with "<" and "</"
\* occurs in it.
IsMarkup(t) ==
  /\ Len(t) >= 1
  /\ t[1] = 60
  /\ \E p \in 1..(Len(t) - 1) : t[p] = 60 /\ t[p + 1] = 47

\* "**" occurs in the text.
HasBold(t) == \E p \in 1..(Len(t) - 1) : t[p] = 42 /\ t[p + 1] = 42

\* A dash follows a line feed in the text.
HasDashAfterLineFeed(t) == \E p \in 1..(Len(t) - 1) : t[p] = 10 /\ t[p + 1] = 45

\* A line of the text begins with a dash: the first line, or one behind a
\* line terminator.
HasDashLine(t) ==
  \E p \in 1..Len(t) : t[p] = 45 /\ (p = 1 \/ t[p - 1] \in LineTerminators)

\* The code points of the text in U+1F300..U+1F9FF, by the index of their
\* first unit.
EmojiCodePoints(t) ==
  {p \in 1..(Len(t) - 1) :
     /\ t[p] \in 55296..56319
     /\ t[p + 1] \in 56320..57343
     /\ CodePoint(t[p], t[p + 1]) >= 127744
     /\ CodePoint(t[p], t[p + 1]) <= 129535}

\* C8: shouldCapture returns true exactly when the cleaned text is 10 to 500
\* units long, is not flagged by the markup check nor by the markdown check,
\* holds at most 3 code points of U+1F300..U+1F9FF, and matchTrigger on the
\* cleaned text with the configured filter is not null.
C8_GateDecision ==
  call.op = "shouldCapture" =>
    \A clean \in {stripMessageMetadata(text)} :
      call.result =
        (/\ Len(clean) >= 10
         /\ Len(clean) <= 500
         /\ ~IsMarkup(clean)
         /\ ~(HasBold(clean) /\ HasDashAfterLineFeed(clean))
         /\ Cardinality(EmojiCodePoints(clean)) <= 3
         /\ matchTrigger(clean, call.languages, {}).result # Null)

\* A text of 500 units after cleaning was accepted.
C8_Witness ==
  /\ call.op = "shouldCapture"
  /\ call.result = TRUE
  /\ \E clean \in {stripMessageMetadata(text)} : Len(clean) = 500

\* C9: shouldCapture rejects every text that begins with "<" and holds "</".
C9_MarkupRejected ==
  call.op = "shouldCapture" /\ IsMarkup(text) => call.result = FALSE

\* C10 as the specification has it: shouldCapture rejects every text that,
\* cleaned, is 10 to 500 units long, is not markup, and holds "**" and a
\* line that begins with a dash, the first line included.
C10_DashLineAnywhere ==
  call.op = "shouldCapture" =>
    \A clean \in {stripMessageMetadata(text)} :
      /\ Len(clean) >= 10
      /\ Len(clean) <= 500
      /\ ~IsMarkup(clean)
      /\ HasBold(clean)
      /\ HasDashLine(clean)
      => call.result = FALSE

\* C10 as the code has it: shouldCapture rejects every text that, cleaned,
\* holds "**" and a dash that follows a line feed.
C10_DashAfterLineFeed ==
  call.op = "shouldCapture" =>
    \A clean \in {stripMessageMetadata(text)} :
      HasBold(clean) /\ HasDashAfterLineFeed(clean) => call.result = FALSE

\* A text that passes the length and markup checks, holds a trigger, "**"
\* and a dash behind a line feed, was rejected.
C10_Witness ==
  /\ call.op = "shouldCapture"
  /\ call.result = FALSE
  /\ \E clean \in {stripMessageMetadata(text)} :
       /\ Len(clean) >= 10
       /\ Len(clean) <= 500
       /\ ~IsMarkup(clean)
       /\ HasBold(clean)
       /\ HasDashAfterLineFeed(clean)
       /\ matchTrigger(clean, call.languages, {}).result # Null

\* The storage category the table of the specification gives a match.
CategoryOfMatch(match) ==
  IF match = Null THEN "other"
  ELSE CASE match.category = "remember" -> "other"
         [] match.category = "preference" -> "preference"
         [] match.category = "decision" -> "decision"
         [] match.category = "identity" -> "entity"
         [] match.category = "fact" -> "fact"
         [] match.category = "importance" -> "other"

\* C11: detectCategory(text) returns other for a remember match, preference
\* for preference, decision for decision, entity for identity, fact for fact,
\* other for importance, and other when matchTrigger returns null; the result
\* is always one of the five storage categories.
C11_CategoryMapping ==
  call.op = "detectCategory" =>
    /\ \E k \in 1..Len(MEMORY_CATEGORIES) : call.result = MEMORY_CATEGORIES[k]
    /\ \A m \in {matchTrigger(text, call.languages, {}).result} :
         call.result = CategoryOfMatch(m)

\* detectCategory has mapped an identity match to entity.
C11_Witness ==
  /\ call.op = "detectCategory"
  /\ call.result = "entity"
  /\ matchTrigger(text, call.languages, {}).result # Null
  /\ matchTrigger(text, call.languages, {}).result.category = "identity"

\* The valid codes among the items, in their order.
RECURSIVE ValidCodes(_)
ValidCodes(items) ==
  IF items = <<>> THEN <<>>
  ELSE IF \E k \in 1..Len(SUPPORTED_LANGUAGES) : Head(items) = Str(SUPPORTED_LANGUAGES[k])
       THEN <<Head(items).value>> \o ValidCodes(Tail(items))
  ELSE ValidCodes(Tail(items))

\* A filter the matcher is made for: "auto", a language code, or a non-empty
\* array of language codes.
IsFilter(f) ==
  \/ f = Auto
  \/ \E k \in 1..Len(SUPPORTED_LANGUAGES) : f = Code(SUPPORTED_LANGUAGES[k])
  \/ /\ f.kind = "array"
     /\ f.codes # <<>>
     /\ \A j \in 1..Len(f.codes) : \E k \in 1..Len(SUPPORTED_LANGUAGES) :
          f.codes[j] = SUPPORTED_LANGUAGES[k]

\* C12: parseLanguage never fails and never yields an empty or invalid
\* filter: it returns "auto" for undefined, for "auto", for any unrecognized
\* single value and for any array without a valid code; for an array with a
\* valid code exactly the valid codes in their order; for a valid single code
\* that code.
C12_ParseLanguage ==
  call.op = "parseLanguage" =>
    /\ IsFilter(call.result)
    /\ IF IsArray(value)
       THEN call.result = (IF ValidCodes(value.items) = <<>> THEN Auto
                           ELSE Array(ValidCodes(value.items)))
       ELSE IF ValidCodes(<<value>>) # <<>> THEN call.result = Code(value.value)
       ELSE call.result = Auto

\* parseLanguage was given an array with valid and invalid entries and has
\* returned the valid ones.
C12_Witness ==
  /\ call.op = "parseLanguage"
  /\ value = Arr(<<Str("common"), Str("ru")>>)
  /\ call.result = Array(<<"ru">>)

HasPlainEightNumber(t) ==
  \E p \in 1..(Len(t) - 10) : t[p] = 56 /\ \A k \in 1..10 : t[p + k] \in Digits

\* C16: a text that holds a phone number in the 8 format without separators,
\* or one written with spaces or dashes, and on which no rule of a language
\* fires yields, under the filter "ru", a match with lang "common".
C16_PhoneNumbersMatch ==
  ( /\ call.op = "matchTrigger"
    /\ call.languages = Code("ru")
    /\ \/ HasPlainEightNumber(text)
       \/ includes(text, PhoneFragments[3])
       \/ includes(text, PhoneFragments[4])
    /\ \A i \in Firing(ALL_TRIGGERS, text, call.languages) : ALL_TRIGGERS[i].lang = "common" )
  => (call.result # Null /\ call.result.lang = "common")

\* The letters of the scripts of the catalogue: Latin, Latin with diacritics,
\* Cyrillic.
Letters == (65..90) \cup (97..122) \cup (192..591) \cup (1024..1327)

\* The units s..e-1 of t lie inside a longer word: a letter at an end of the
\* span has a letter next to it outside the span.
InsideWord(t, s, e) ==
  \/ s > 1 /\ t[s - 1] \in Letters /\ t[s] \in Letters
  \/ e <= Len(t) /\ t[e - 1] \in Letters /\ t[e] \in Letters

\* C17: a rule does not fire when its phrase occurs in the text only as a
\* substring of a longer word: every rule that fires has a match that does
\* not lie inside a longer word.
C17_NoMatchInsideWord ==
  call.op = "getAllMatches" =>
    \A k \in 1..Len(call.result) : \A t \in {ALL_TRIGGERS[call.result[k]]} :
      \E s \in 1..Len(text) : \E e \in Ends(t.pattern, "i" \in t.flags, text, {s}) :
        e > s /\ ~InsideWord(text, s, e)

\* C18: getAllMatches returns exactly the rules of the filtered catalogue
\* that fire on the text; matchTrigger is non-null if and only if
\* getAllMatches is non-empty, and then equals the category, weight and lang
\* of the first element of getAllMatches that has the maximum weight.
C18_AllMatchesAndBest ==
  /\ call.op = "getAllMatches" =>
       /\ {call.result[k] : k \in 1..Len(call.result)} = Firing(ALL_TRIGGERS, text, call.languages)
       /\ Len(call.result) = Cardinality(Firing(ALL_TRIGGERS, text, call.languages))
  /\ call.op = "matchTrigger" =>
       \A g \in {getAllMatches(text, call.languages, {}).result} :
         /\ (call.result # Null) <=> (g # <<>>)
         /\ g # <<>> =>
              \E k \in 1..Len(g) :
                /\ \A j \in 1..Len(g) : WeightOf(ALL_TRIGGERS[g[j]]) <= WeightOf(ALL_TRIGGERS[g[k]])
                /\ \A j \in 1..(k - 1) : WeightOf(ALL_TRIGGERS[g[j]]) < WeightOf(ALL_TRIGGERS[g[k]])
                /\ call.result = [category |-> ALL_TRIGGERS[g[k]].category,
                                  weight |-> WeightOf(ALL_TRIGGERS[g[k]]),
                                  lang |-> ALL_TRIGGERS[g[k]].lang]

\* matchTrigger has returned a rule that is not the first of getAllMatches:
\* the first one has a lower weight.
C18_Witness ==
  /\ call.op = "matchTrigger"
  /\ call.result # Null
  /\ \E g \in {getAllMatches(text, call.languages, {}).result} :
       /\ Len(g) > 1
       /\ WeightOf(ALL_TRIGGERS[g[1]]) < call.result.weight

\* The text is one of the texts, as it is or cleaned.
IsTextOf(txt, texts) ==
  txt \in texts \/ \E x \in texts : txt = stripMessageMetadata(x)

\* The rows of the table that call t has added.
AddedBy(t) == {i \in 1..Len(memdb.rows) : \E n \in 1..Len(memdb.rows) : memdb.rows[i].id = Uuid(t, n)}

\* C13: for any failure of the embedding call, the vector search, the store
\* call or the database initialization during a before_agent_start or
\* agent_end handler, the handler catches the failure, logs a warning and
\* completes normally without throwing.
C13_HooksNeverThrow ==
  \A t \in 1..Len(tasks) : \A task \in {tasks[t]} :
    task.op \in {"agent_end", "before_agent_start"} =>
      /\ task.outcome # "threw"
      /\ task.failed # "none" =>
           /\ task.pc = "done"
           /\ task.outcome = "returned"
           /\ task.warned

\* The initialization of the database has failed under agent_end, which has
\* logged a warning and returned.
C13_Witness ==
  \E t \in 1..Len(tasks) :
    /\ tasks[t].op = "agent_end"
    /\ tasks[t].failed = "init"
    /\ memdb.initPromise = "rejected"
    /\ tasks[t].outcome = "returned"
    /\ tasks[t].warned

\* C14: the memory_store tool stores any text, whatever the capture gate
\* would say of it, with the given or default importance 0.7 and category
\* other, except that when the search returns an existing entry (score >=
\* 0.95) nothing is stored and the result reports action duplicate with the
\* existing entry's id.
C14_StoreToolNotGated ==
  \A t \in 1..Len(tasks) : \A task \in {tasks[t]} :
    (task.op = "memory_store" /\ task.outcome = "returned") =>
      IF task.results # <<>>
      THEN /\ task.result.action = "duplicate"
           /\ task.result.existingId = task.results[1].entry.id
           /\ task.results[1].score >= 95
           /\ task.stores = 0
           /\ AddedBy(t) = {}
      ELSE /\ task.result.action = "created"
           /\ Cardinality(AddedBy(t)) = 1
           /\ \A i \in AddedBy(t) : \A r \in {memdb.rows[i]} :
                /\ r.id = task.result.id
                /\ r.text = task.input.text.value
                /\ r.importance = (IF task.input.importance = Undefined THEN 70
                                   ELSE task.input.importance.value)
                /\ r.category = (IF task.input.category = Undefined THEN "other"
                                 ELSE task.input.category.value)

\* memory_store has stored a text the capture gate rejects, with the
\* defaults.
C14_Witness ==
  \E t \in 1..Len(tasks) :
    /\ tasks[t].op = "memory_store"
    /\ tasks[t].outcome = "returned"
    /\ tasks[t].result.action = "created"
    /\ tasks[t].input.text.value = TextShort
    /\ ~shouldCapture(TextShort, cfg.language, {}).result
    /\ \E i \in AddedBy(t) : memdb.rows[i].text = TextShort /\ memdb.rows[i].importance = 70

\* The texts of the event that agent_end finds capturable, in message order.
Capturable(event, language) ==
  IF ~event.success \/ event.messages = Undefined THEN <<>>
  ELSE FilterCapturable(ExtractTexts(event.messages.items), 1, language, {}, <<>>).result

\* The toCapture of an agent_end call is, from its start on, the capturable
\* texts of its event.
ToCaptureIsFilter ==
  \A t \in 1..Len(tasks') :
    tasks'[t].op = "agent_end" =>
      IF t > Len(tasks)
      THEN tasks'[t].toCapture = Capturable(tasks'[t].input, cfg.language)
      ELSE tasks'[t].toCapture = tasks[t].toCapture

\* C19: for every agent_end event at most 3 memories are stored, and only
\* the first three capturable texts in message order are candidates: a
\* fourth or later capturable text is never stored, even when earlier
\* candidates are skipped. The capturable texts are the call's toCapture.
C19_AtMostThreeStored ==
  \A t \in 1..Len(tasks) : \A task \in {tasks[t]} :
    task.op = "agent_end" =>
      /\ task.stored <= 3
      /\ Cardinality(AddedBy(t)) <= 3
      /\ \A cap \in {task.toCapture} : \A i \in AddedBy(t) :
           /\ IsTextOf(memdb.rows[i].text, {cap[k] : k \in {j \in 1..Len(cap) : j <= 3}})
           /\ \A k \in 4..Len(cap) : memdb.rows[i].text # stripMessageMetadata(cap[k])

\* agent_end has ended on an event with more than three capturable texts:
\* it has looked at three, skipped one as a duplicate and stored two.
C19_Witness ==
  \E t \in 1..Len(tasks) :
    /\ tasks[t].op = "agent_end"
    /\ tasks[t].pc = "done"
    /\ tasks[t].failed = "none"
    /\ tasks[t].searches = 3
    /\ Cardinality(AddedBy(t)) = 2
    /\ Len(tasks[t].toCapture) > 3

\* The texts of the event that are string content or text blocks of messages
\* whose role is user or assistant.
EligibleTexts(event) ==
  IF event.messages = Undefined THEN {}
  ELSE UNION {IF ~IsMessage(m) \/ m.role \notin {"user", "assistant"} THEN {}
              ELSE IF IsString(m.content) THEN {m.content.value}
              ELSE IF IsArray(m.content)
                   THEN {b.text.value : b \in {x \in {m.content.items[j] :
                                                      j \in 1..Len(m.content.items)} :
                                                 IsTextBlock(x)}}
              ELSE {} :
              m \in {event.messages.items[j] : j \in 1..Len(event.messages.items)}}

\* An agent_end call on an event that is unsuccessful, has no messages or
\* has an empty toCapture has ended without a call and without a memory;
\* the candidates, the embedded text and the memories of a call are texts
\* of user and assistant messages.
NothingWithoutCandidates ==
  \A t \in 1..Len(tasks) : \A task \in {tasks[t]} :
    task.op = "agent_end" =>
      /\ ( \/ ~task.input.success
           \/ task.input.messages = Undefined
           \/ task.input.messages.items = <<>>
           \/ task.toCapture = <<>> ) =>
           /\ task.pc = "done"
           /\ task.outcome = "returned"
           /\ task.embeds = 0
           /\ task.searches = 0
           /\ task.stores = 0
           /\ AddedBy(t) = {}
      /\ \A k \in 1..Len(task.candidates) : task.candidates[k] \in EligibleTexts(task.input)
      /\ task.embeds > 0 => IsTextOf(task.text, EligibleTexts(task.input))
      /\ \A i \in AddedBy(t) : IsTextOf(memdb.rows[i].text, EligibleTexts(task.input))

\* C20: agent_end stores nothing and calls neither the embedding provider
\* nor the store when the event is not successful, when it has no messages,
\* or when no extracted text passes shouldCapture; only string content and
\* text blocks of messages whose role is user or assistant are ever
\* considered as candidates.
C20_NothingWithoutCandidates == []NothingWithoutCandidates /\ [][ToCaptureIsFilter]_vars

\* agent_end has returned without a call on a successful event whose only
\* texts with triggers are in messages of other roles or in other blocks.
C20_Witness ==
  \E t \in 1..Len(tasks) :
    /\ tasks[t].op = "agent_end"
    /\ tasks[t].input = Events[4]
    /\ tasks[t].pc = "done"
    /\ tasks[t].embeds = 0
    /\ ExtractTexts(tasks[t].input.messages.items) = <<TextPlain>>

(***************************************************************************)
(* The entries of the auto-capture path, failures inside the loop         *)
(***************************************************************************)

\* The rows of the table the step has added for agent_end call t.
NewRowsOf(t) ==
  {i \in 1..Len(memdb'.rows) :
     /\ i > Len(memdb.rows)
     /\ \E n \in 1..3 : memdb'.rows[i].id = Uuid(t, n)}

\* Every row a step adds for an agent_end call holds the cleaned text of one
\* of its candidates, of 10 to 500 units, on which matchTrigger finds a rule
\* under the configured language, the category that rule maps to and the
\* importance 0.7.
NewRowsAreCaptured ==
  \A t \in 1..Len(tasks) : tasks[t].op = "agent_end" =>
    \A i \in NewRowsOf(t) : \A r \in {memdb'.rows[i]} :
      /\ \E k \in 1..Len(tasks[t].candidates) :
           r.text = stripMessageMetadata(tasks[t].candidates[k])
      /\ Len(r.text) >= 10
      /\ Len(r.text) <= 500
      /\ \A m \in {matchTrigger(r.text, cfg.language, {}).result} :
           /\ m # Null
           /\ r.category = TRIGGER_TO_CATEGORY[m.category]
      /\ r.importance = 70

\* C21: every entry stored by the auto-capture path has as text the cleaned
\* text of the raw message, of length 10 to 500, which fires at least one
\* trigger under the configured language filter; its category is the
\* category mapping applied to matchTrigger of that text and its importance
\* is 0.7.
C21_AutoCaptureEntries == [][NewRowsAreCaptured]_vars

\* agent_end has stored the text of a message that came in an envelope,
\* cleaned, with the category of its rule.
C21_Witness ==
  \E t \in 1..Len(tasks) :
    /\ tasks[t].op = "agent_end"
    /\ tasks[t].candidates # <<>>
    /\ tasks[t].candidates[1] = TextEnvelope
    /\ \E i \in AddedBy(t) :
         /\ memdb.rows[i].text = TextRemember
         /\ memdb.rows[i].category = "other"
         /\ memdb.rows[i].importance = 70

\* C23: if embed, search or store fails while agent_end is processing one
\* candidate, the handler stops (its call has ended, so no later candidate
\* is embedded, searched or stored), the entries it stored before remain
\* stored, and it returns without throwing.
C23_FailureEndsTheLoop ==
  \A t \in 1..Len(tasks) : \A task \in {tasks[t]} :
    (task.op = "agent_end" /\ task.failed # "none") =>
      /\ task.pc = "done"
      /\ task.outcome = "returned"
      /\ task.k <= Len(task.candidates)
      /\ task.stored < task.k
      /\ Cardinality(AddedBy(t)) = task.stored

\* The store of the second candidate has failed: the first is stored, the
\* third was never looked at.
C23_Witness ==
  \E t \in 1..Len(tasks) :
    /\ tasks[t].op = "agent_end"
    /\ tasks[t].failed = "add"
    /\ tasks[t].k = 2
    /\ Len(tasks[t].candidates) = 3
    /\ tasks[t].embeds = 2
    /\ Cardinality(AddedBy(t)) = 1
    /\ tasks[t].outcome = "returned"

(***************************************************************************)
(* Calls that run at the same time                                         *)
(***************************************************************************)

\* The rows that hold a memory (all but the placeholder).
Memories == {i \in 1..Len(memdb.rows) : memdb.rows[i].id # SchemaId}

\* C22: for any interleaving of agent_end handlers and memory_store calls
\* that run at the same time, on a database whose search for a vector
\* identical to a stored one returns that entry with a score of at least
\* 0.95, the table never holds two entries with the same text.
C22_NoTwoEntriesOfOneText ==
  \A i \in Memories : \A j \in Memories :
    i # j => memdb.rows[i].text # memdb.rows[j].text

(***************************************************************************)
(* MemoryDB: the lazy initialization                                       *)
(***************************************************************************)

\* The awaits of a table operation.
TableOps == {"search", "add", "delete", "count", "list"}

\* C24: for any interleaving of store, search, delete, count and list calls
\* on one MemoryDB instance that run at the same time, doInitialize is
\* invoked at most once, and a call is at an operation of the table, or has
\* returned from one, only when a table handle exists.
C24_InitializedOnce ==
  /\ memdb.inits <= 1
  /\ memdb.init # "none" => memdb.inits = 1
  /\ \A t \in 1..Len(tasks) :
       (tasks[t].pc \in TableOps \/ tasks[t].outcome = "returned") => memdb.table

\* Two calls await the one initialization, which is under way.
C24_Witness ==
  /\ Len(tasks) = 2
  /\ tasks[1].pc = "init"
  /\ tasks[2].pc = "init"
  /\ tasks[1].op # tasks[2].op
  /\ memdb.init = "tableNames"
  /\ memdb.inits = 1

\* The calls that read the table.
Reads == {"search", "count", "list"}

\* C25: for any interleaving of MemoryDB calls during the first
\* initialization, no search, list or count returns or counts the row with
\* id "__schema__" that createTable is given.
C25_SchemaRowNeverRead ==
  \A t \in 1..Len(tasks) :
    (tasks[t].op \in Reads /\ tasks[t].outcome = "returned") =>
      \A j \in 1..Len(tasks[t].results) : tasks[t].results[j].entry.id # SchemaId

\* A step made while the initialization has failed: no call is made anew on
\* the table, a call that awaited the initialization rejects, and
\* doInitialize is not called again.
FailedForGood ==
  memdb.initPromise = "rejected" =>
    /\ memdb'.inits = memdb.inits
    /\ memdb'.initPromise = "rejected"
    /\ \A t \in 1..Len(tasks') :
         IF t > Len(tasks)
         THEN tasks'[t].pc = "init" \/ tasks'[t].outcome = "threw"
         ELSE (tasks[t].pc = "init" /\ tasks'[t] # tasks[t]) => tasks'[t].outcome = "threw"

\* C26: if doInitialize rejects at any of its steps (connect, list tables,
\* open, create, delete of the schema row), every later store, search,
\* delete, count and list call on the instance rejects, the initialization
\* is never tried again, and no later call operates on the table.
C26_FailedInitIsPermanent == [][FailedForGood]_vars

(***************************************************************************)
(* MemoryDB.delete and memory_forget                                       *)
(***************************************************************************)

\* The string is an 8-4-4-4-12 hexadecimal UUID: its hyphens stand behind
\* 8, 4, 4 and 4 digits and 12 digits follow, each 0-9 or a-f in either case.
IsUuid(id) ==
  /\ {k \in 1..Len(id) : id[k] = 45} = {9, 14, 19, 24}
  /\ Len(id) = 24 + 12
  /\ \A k \in 1..Len(id) :
       id[k] = 45 \/ id[k] \in (48..57) \cup (97..102) \cup (65..70)

\* The calls of MemoryDB.delete the step has made or brought to their end.
DeletesMoved ==
  {t \in 1..Len(tasks') :
     /\ tasks'[t].op = "delete"
     /\ t > Len(tasks) \/ tasks'[t].pc # tasks[t].pc}

\* A step of a call of delete removes no row unless it ends the call with
\* true, and then the rows of that id, all of them and no other, are gone.
DeleteRemovesTheId ==
  \A t \in DeletesMoved :
    IF tasks'[t].outcome = "returned"
    THEN /\ IsUuid(tasks'[t].input)
         /\ tasks'[t].result = TRUE
         /\ \A r \in {memdb'.rows[i] : i \in 1..Len(memdb'.rows)} :
              IdString(r.id) # tasks'[t].input
         /\ memdb'.rows = SelectSeq(memdb.rows, LAMBDA r : IdString(r.id) # tasks'[t].input)
    ELSE memdb'.rows = memdb.rows

\* A call of delete with an id that is no UUID has thrown 'Invalid memory ID
\* format'.
DeleteRejectsBadIds ==
  \A t \in 1..Len(tasks) :
    (tasks[t].op = "delete" /\ tasks[t].pc = "done" /\ ~IsUuid(tasks[t].input)) =>
      /\ tasks[t].outcome = "threw"
      /\ tasks[t].failed = "invalid_id"

\* A call of delete with an id that is no UUID has thrown: 'Invalid memory
\* ID format' when the initialization has succeeded, and what the
\* initialization threw when that has failed.
DeleteRejectsBadIdsOnceInitialized ==
  \A t \in 1..Len(tasks) :
    (tasks[t].op = "delete" /\ tasks[t].pc = "done" /\ ~IsUuid(tasks[t].input)) =>
      /\ tasks[t].outcome = "threw"
      /\ tasks[t].failed \in {"invalid_id", "init"}
      /\ tasks[t].failed = "invalid_id" => memdb.table
      /\ tasks[t].failed = "init" => memdb.initPromise = "rejected"

Given(param) == param # Undefined /\ param.value # <<>>

\* What a finished call of memory_forget has done, by its parameters.
ForgetByParams ==
  \A t \in 1..Len(tasks) :
    (tasks[t].op = "memory_forget" /\ tasks[t].pc = "done") =>
      /\ tasks[t].deletes <= 1
      /\ Given(tasks[t].input.memoryId) =>
           /\ tasks[t].embeds = 0
           /\ tasks[t].searches = 0
           /\ tasks[t].deletes = 1
           /\ tasks[t].id = tasks[t].input.memoryId.value
           /\ tasks[t].outcome = "returned" =>
                tasks[t].result = [action |-> "deleted", id |-> tasks[t].input.memoryId.value]
      /\ (~Given(tasks[t].input.memoryId) /\ Given(tasks[t].input.query)) =>
           /\ tasks[t].embeds = 1
           /\ tasks[t].text = tasks[t].input.query.value
           /\ Len(tasks[t].results) <= 5
           /\ \A j \in 1..Len(tasks[t].results) : tasks[t].results[j].score >= 70
           /\ tasks[t].deletes = 1 <=>
                /\ Len(tasks[t].results) = 1
                /\ tasks[t].results[1].score > 90
           /\ tasks[t].deletes = 1 => tasks[t].id = IdString(tasks[t].results[1].entry.id)
           /\ tasks[t].outcome = "returned" =>
                IF tasks[t].deletes = 1
                THEN tasks[t].result = [action |-> "deleted", id |-> tasks[t].id]
                ELSE IF tasks[t].results = <<>>
                THEN tasks[t].result = [found |-> 0]
                ELSE /\ tasks[t].result.action = "candidates"
                     /\ Len(tasks[t].result.candidates) = Len(tasks[t].results)
      /\ (~Given(tasks[t].input.memoryId) /\ ~Given(tasks[t].input.query)) =>
           /\ tasks[t].embeds = 0
           /\ tasks[t].searches = 0
           /\ tasks[t].deletes = 0
           /\ tasks[t].result = [error |-> "missing_param"]

\* The entries the step has taken from the table.
Forgotten ==
  {i \in 1..Len(memdb.rows) :
     /\ memdb.rows[i].id # SchemaId
     /\ \A j \in 1..Len(memdb'.rows) : memdb'.rows[j] # memdb.rows[i]}

\* A step takes at most one entry from the table, and only as the delete of
\* a call of memory_forget which ends with it, the entry having the id the
\* call was to delete.
ForgetsOneAtMost ==
  /\ Cardinality(Forgotten) <= 1
  /\ \A i \in Forgotten :
       \E t \in 1..Len(tasks) :
         /\ tasks[t].op = "memory_forget"
         /\ tasks[t].pc = "delete"
         /\ tasks[t].deletes = 1
         /\ tasks[t].id = IdString(memdb.rows[i].id)
         /\ tasks'[t].pc = "done"
         /\ tasks'[t].outcome = "returned"

\* C28: memory_forget deletes at most one entry per call: with a memoryId it
\* deletes that id and ignores the query; with a query alone it deletes only
\* when the search (top 5, score at least 0.7) returns exactly one result
\* whose score is above 0.9; with no result, several, or one of a score of
\* 0.9 or less nothing is deleted and it reports none found or the
\* candidates; with neither parameter it returns the error missing_param.
C28_ForgetsAtMostOne == []ForgetByParams /\ [][ForgetsOneAtMost]_vars

\* A call with a query alone has found one entry of two with a score above
\* 0.9 and deleted it; the other entry is what the table holds.
C28_Witness ==
  /\ Len(tasks) = 1
  /\ tasks[1].op = "memory_forget"
  /\ tasks[1].input.memoryId = Undefined
  /\ tasks[1].outcome = "returned"
  /\ Len(tasks[1].results) = 1
  /\ tasks[1].results[1].score = 95
  /\ tasks[1].results[1].entry.id = Uuid(0, 1)
  /\ tasks[1].result = [action |-> "deleted", id |-> UuidString(0, 1)]
  /\ Len(memdb.rows) = 1
  /\ memdb.rows[1].id = Uuid(0, 0)

(***************************************************************************)
(* RawUpdateBuffer                                                         *)
(***************************************************************************)

\* The buffer holds at most maxSize entries.
WithinMaxSize == Len(buffer) <= config.maxSize

\* What a step leaves of the buffer it found: the entries kept, in their
\* order, are the first entries of the buffer afterwards.
KeptInOrder ==
  \E dropped \in SUBSET (1..Len(buffer)) :
    \E kept \in {SelectSeq([k \in 1..Len(buffer) |-> k] \o <<>>, LAMBDA k : k \notin dropped)} :
      /\ Len(kept) <= Len(buffer')
      /\ Len(buffer') <= Len(kept) + 1
      /\ \A k \in 1..Len(kept) : buffer'[k] = buffer[kept[k]]
      /\ last'.op = "push" =>
           /\ \A d \in dropped : \A k \in 1..Len(kept) : d < kept[k]
           /\ dropped # {} => Len(buffer') = config.maxSize
           /\ Len(buffer') = Len(kept) + 1 =>
                /\ buffer'[Len(buffer')].receivedAt = now
                /\ IsNumber(Get(buffer'[Len(buffer')].raw, "update_id"))
                /\ buffer'[Len(buffer')].updateId = Get(buffer'[Len(buffer')].raw, "update_id").value
      /\ last'.op # "push" => Len(buffer') = Len(kept)

\* A push of what is no object, or has no number as its update_id, leaves
\* the buffer as it is.
PushOfNoUpdate ==
  \A u \in 1..Len(Updates) :
    (Push(Updates[u]) /\ (Updates[u] \in {Undefined, Null}
                          \/ Updates[u].type # "object"
                          \/ "update_id" \notin DOMAIN Updates[u].fields
                          \/ Updates[u].fields.update_id.type # "number")) =>
      buffer' = buffer

\* A push of an update with a number as its update_id makes it the newest
\* entry of a buffer that may hold an entry.
PushOfUpdate ==
  \A u \in 1..Len(Updates) :
    (/\ Push(Updates[u])
     /\ Updates[u] \notin {Undefined, Null}
     /\ Updates[u].type = "object"
     /\ "update_id" \in DOMAIN Updates[u].fields
     /\ Updates[u].fields.update_id.type = "number"
     /\ config.maxSize > 0) =>
      /\ buffer' # <<>>
      /\ buffer'[Len(buffer')].raw = Updates[u]
      /\ buffer'[Len(buffer')].receivedAt = now
      /\ Len(buffer') = IF Len(buffer) < config.maxSize THEN Len(buffer) + 1 ELSE config.maxSize

\* C29: after any sequence of push, getRecent, getById, getStats and clear
\* calls the buffer holds at most maxSize entries (100 by default), kept in
\* arrival order; when a push exceeds maxSize the oldest entries are the
\* ones evicted, and a push of a non-object or of an update without a
\* numeric update_id leaves the buffer unchanged.
C29_BufferBound ==
  /\ []WithinMaxSize
  /\ [](config = RawUpdateBufferConfig(<<>>) => config.maxSize = 100)
  /\ [][KeptInOrder /\ PushOfNoUpdate /\ PushOfUpdate]_vars

=============================================================================
